---- MODULE Spec2Model ----
(***************************************************************************)
(* Engagement lifecycle of the marketplace backend: projects, bids,        *)
(* contracts, work submissions and payment transactions, as driven by the  *)
(* HTTP handlers of app/routers.                                           *)
(*                                                                         *)
(* Every handler is an operator from the document store and the request    *)
(* to the response code, the list of store writes it issued and the store  *)
(* afterwards; it runs the handler's checks in the handler's order and     *)
(* issues its writes in the handler's order.  A store write (save, update, *)
(* delete of db/firebase_ops.py) either takes effect and reports success,  *)
(* or raises inside the wrapper, takes no effect and reports failure; the  *)
(* request says which of its writes succeed.  Store reads are taken to     *)
(* succeed.  One action per handler applies it to the store, for every     *)
(* caller and every request of the enumerated sets: requests are executed  *)
(* one at a time.  SpecConc instead runs accept_bid one store access at a  *)
(* time, as two server processes on one store do: the handler holds no     *)
(* lock and uses no transaction.                                           *)
(***************************************************************************)
EXTENDS Integers, Sequences, FiniteSets, TLC

\* ---------------------------------------------------------------- bounds
MaxProjects == 1
MaxBidAreaProjects == 2
MaxLiveProjects == 1
MaxBids == 2
MaxContracts == 2
MaxSubmissions == 2
MaxTransactions == 2
MaxReviews == 2
MaxChats == 3

\* ----------------------------------------------------------------- users
Clients == {"c1"}
Freelancers == {"f1", "f2"}
Users == Clients \cup Freelancers
None == "none"

role(u) == IF u \in Clients THEN "client" ELSE "freelancer"

\* ------------------------------------------------------------ value sets
Statuses == {"open", "in_progress", "awaiting_review", "completed"}
Amounts == {80, 90}
\* Optional[float]: the empty set is None
Budgets == {{}, {100}}

ProjectIds == 1 .. MaxBidAreaProjects
BidIds == 1 .. MaxBids
ContractIds == 1 .. MaxContracts
SubmissionIds == 1 .. MaxSubmissions

\* The document store: one field per collection.
\*   projects      project id -> document (a deleted project has no entry)
\*   nProjects     number of project ids issued so far (uuid4 never repeats)
\*   bids, contracts, submissions, transactions, reviews, chats
\*                 sequences of documents, the index being the document id
\*   freelancer_profiles
\*                 freelancer -> average_rating in hundredths (0: none yet)
VARIABLE store

\* The accept_bid requests in flight: for each, how far the handler has got
\* and what it has read so far (see AcceptProcs below).
VARIABLE procs

vars == <<store, procs>>

\* ------------------------------------------------------- store primitives
\* One store write of a request: collection, document id, whether it succeeded.
W(coll, id, ok) == [coll |-> coll, id |-> id, ok |-> ok]

\* FirestoreBaseModel.update: the fields of updates overwrite the document's.
update(doc, updates) ==
    [k \in DOMAIN doc |-> IF k \in DOMAIN updates THEN updates[k] ELSE doc[k]]

\* FirestoreBaseModel.query on field project_id, as the set of matching ids.
query(coll, pid) == {i \in 1 .. Len(coll) : coll[i].project_id = pid}

\* The ids of a set in increasing order.
RECURSIVE SetToSeq(_)
SetToSeq(S) ==
    IF S = {} THEN <<>>
    ELSE LET m == CHOOSE x \in S : \A y \in S : x <= y
         IN <<m>> \o SetToSeq(S \ {m})

\* What a handler yields: HTTP status, store writes in order, store afterwards.
Out(code, writes, S) == [code |-> code, writes |-> writes, store |-> S]

\* ---------------------------------------------------------- create_project
\* Project.creation_date defaults to datetime.now() as evaluated when the
\* schema module is imported: one value for every project of the process.
ImportTime == 0

create_project(S, u, st, bg, ok) ==
    LET pid == S.nProjects + 1
        project_to_save == [project_id |-> pid, client_user_id |-> u,
                            freelancer_user_id |-> None, status |-> st,
                            budget |-> bg, creation_date |-> ImportTime]
    IN
    IF role(u) # "client" THEN Out(403, <<>>, S)
    ELSE IF ~ok THEN Out(500, <<W("projects", pid, FALSE)>>, S)
    ELSE Out(201, <<W("projects", pid, TRUE)>>,
             [S EXCEPT !.nProjects = pid,
                       !.projects = (pid :> project_to_save) @@ @])

\* ---------------------------------------------------------- update_project
\* Variant of project_update_data: creation_date is not removed.
project_update_data_with_creation_date(body) ==
    [k \in DOMAIN body \ {"client_user_id", "project_id"} |-> body[k]]

\* The request body without the three protected keys.
project_update_data(body) ==
    [k \in DOMAIN body \ {"client_user_id", "project_id", "creation_date"} |-> body[k]]

update_project(S, u, pid, body, ok) ==
    IF pid \notin DOMAIN S.projects THEN Out(404, <<>>, S)
    ELSE IF S.projects[pid].client_user_id # u THEN Out(403, <<>>, S)
    ELSE IF DOMAIN project_update_data(body) = {} THEN Out(400, <<>>, S)
    ELSE IF ~ok THEN Out(500, <<W("projects", pid, FALSE)>>, S)
    ELSE Out(200, <<W("projects", pid, TRUE)>>,
             [S EXCEPT !.projects[pid] = update(@, project_update_data(body))])

\* ---------------------------------------------------------- delete_project
\* Variant of delete_project: the project's bids are deleted with it.
delete_project_cascade(S, u, pid, ok) ==
    IF pid \notin DOMAIN S.projects THEN Out(404, <<>>, S)
    ELSE IF S.projects[pid].client_user_id # u THEN Out(403, <<>>, S)
    ELSE IF ~ok THEN Out(500, <<W("projects", pid, FALSE)>>, S)
    ELSE Out(204, <<W("projects", pid, TRUE)>>,
             [S EXCEPT !.projects = [p \in DOMAIN @ \ {pid} |-> @[p]],
                       !.bids = SelectSeq(@, LAMBDA b : b.project_id # pid)])

\* Variant of delete_project: the caller is not compared with the client.
delete_project_any_caller(S, u, pid, ok) ==
    IF pid \notin DOMAIN S.projects THEN Out(404, <<>>, S)
    ELSE IF ~ok THEN Out(500, <<W("projects", pid, FALSE)>>, S)
    ELSE Out(204, <<W("projects", pid, TRUE)>>,
             [S EXCEPT !.projects = [p \in DOMAIN @ \ {pid} |-> @[p]]])

delete_project(S, u, pid, ok) ==
    IF pid \notin DOMAIN S.projects THEN Out(404, <<>>, S)
    ELSE IF S.projects[pid].client_user_id # u THEN Out(403, <<>>, S)
    ELSE IF ~ok THEN Out(500, <<W("projects", pid, FALSE)>>, S)
    ELSE Out(204, <<W("projects", pid, TRUE)>>,
             [S EXCEPT !.projects = [p \in DOMAIN @ \ {pid} |-> @[p]]])

\* -------------------------------------------------- submit_bid_for_project
\* Variant of existing_bid: the existence check is left out.
existing_bid_unchecked(S, pid, u) == FALSE

\* The freelancer already has a bid, of whatever status, on the project.
existing_bid(S, pid, u) ==
    \E i \in query(S.bids, pid) : S.bids[i].freelancer_user_id = u

\* Variant of bid_to_save: the ids are those of the request body.
bid_to_save_from_body(project_id, user_id, bid_in) ==
    [project_id |-> bid_in.project_id, freelancer_user_id |-> bid_in.freelancer_user_id,
     amount |-> bid_in.amount, status |-> "pending"]

\* The bid that is saved: project_id from the path, the freelancer from the
\* token, the amount from the body bid_in; status is the schema's default.
bid_to_save(project_id, user_id, bid_in) ==
    [project_id |-> project_id, freelancer_user_id |-> user_id,
     amount |-> bid_in.amount, status |-> "pending"]

\* bid_in: the request body (BidCreate), which carries ids of its own.
submit_bid_for_project(S, u, pid, bid_in, ok) ==
    LET bid_id == Len(S.bids) + 1
    IN
    IF role(u) # "freelancer" THEN Out(403, <<>>, S)
    ELSE IF pid \notin DOMAIN S.projects THEN Out(404, <<>>, S)
    ELSE IF S.projects[pid].status # "open" THEN Out(400, <<>>, S)
    ELSE IF existing_bid(S, pid, u) THEN Out(400, <<>>, S)
    ELSE IF ~ok THEN Out(500, <<W("bids", bid_id, FALSE)>>, S)
    ELSE Out(201, <<W("bids", bid_id, TRUE)>>,
             [S EXCEPT !.bids = Append(@, bid_to_save(pid, u, bid_in))])

\* --------------------------------------------------- list_bids_for_project
\* A read: the answer is the status alone, the store is left as it is.
list_bids_for_project(S, u, pid) ==
    IF pid \notin DOMAIN S.projects THEN Out(404, <<>>, S)
    ELSE IF S.projects[pid].client_user_id # u THEN Out(403, <<>>, S)
    ELSE Out(200, <<>>, S)

\* ------------------------------------------------------------- update_bid
\* The loop over the request body: only the four listed keys are kept.
allowed_updates(bid_update_data) ==
    [k \in DOMAIN bid_update_data
              \cap {"proposal", "amount", "estimated_completion_time", "status"}
        |-> bid_update_data[k]]

\* Variant of update_bid: the value of status is not looked at.
update_bid_any_status(S, u, bid_id, bid_update_data, ok) ==
    IF bid_id > Len(S.bids) THEN Out(404, <<>>, S)
    ELSE IF u # S.bids[bid_id].freelancer_user_id THEN Out(403, <<>>, S)
    ELSE IF S.bids[bid_id].project_id \notin DOMAIN S.projects THEN Out(404, <<>>, S)
    ELSE IF \/ S.projects[S.bids[bid_id].project_id].status # "open"
            \/ S.bids[bid_id].status # "pending"
    THEN Out(400, <<>>, S)
    ELSE IF DOMAIN allowed_updates(bid_update_data) = {} THEN Out(400, <<>>, S)
    ELSE IF ~ok THEN Out(500, <<W("bids", bid_id, FALSE)>>, S)
    ELSE Out(200, <<W("bids", bid_id, TRUE)>>,
             [S EXCEPT !.bids[bid_id] = update(@, allowed_updates(bid_update_data))])

update_bid(S, u, bid_id, bid_update_data, ok) ==
    IF bid_id > Len(S.bids) THEN Out(404, <<>>, S)
    ELSE IF u # S.bids[bid_id].freelancer_user_id THEN Out(403, <<>>, S)
    ELSE IF S.bids[bid_id].project_id \notin DOMAIN S.projects THEN Out(404, <<>>, S)
    ELSE IF \/ S.projects[S.bids[bid_id].project_id].status # "open"
            \/ S.bids[bid_id].status # "pending"
    THEN Out(400, <<>>, S)
    ELSE IF /\ "status" \in DOMAIN bid_update_data
            /\ bid_update_data["status"] # "withdrawn"
    THEN Out(400, <<>>, S)
    ELSE IF DOMAIN allowed_updates(bid_update_data) = {} THEN Out(400, <<>>, S)
    ELSE IF ~ok THEN Out(500, <<W("bids", bid_id, FALSE)>>, S)
    ELSE Out(200, <<W("bids", bid_id, TRUE)>>,
             [S EXCEPT !.bids[bid_id] = update(@, allowed_updates(bid_update_data))])

\* ------------------------------------------------------------- accept_bid
\* The bids the rejection loop writes: the project's other bids still pending.
other_bids(bs, pid, bid_id) ==
    {i \in query(bs, pid) : i # bid_id /\ bs[i].status = "pending"}

\* The collection after the rejection loop; rejOk: the writes that succeed.
RejectOthers(bs, others, rejOk) ==
    [i \in 1 .. Len(bs) |->
        IF i \in others \cap rejOk THEN update(bs[i], [status |-> "rejected"])
        ELSE bs[i]]

\* The rejection loop's writes.
RejectWrites(others, rejOk) ==
    LET s == SetToSeq(others)
    IN [k \in 1 .. Len(s) |-> W("bids", s[k], s[k] \in rejOk)]

\* Variant of contract_to_save: the freelancer is taken from the project as it
\* was read before the handler's writes.
contract_to_save_stale(target_project, pid, target_bid) ==
    [project_id |-> pid,
     client_id |-> target_project.client_user_id,
     freelancer_id |-> target_project.freelancer_user_id,
     agreed_amount |-> target_bid.amount,
     status |-> "active"]

contract_to_save(target_project, pid, target_bid) ==
    [project_id |-> pid,
     client_id |-> target_project.client_user_id,
     freelancer_id |-> target_bid.freelancer_user_id,
     agreed_amount |-> target_bid.amount,
     status |-> "active"]

\* The bid after the compensating write, whose result is not looked at.
RevertBid(bs, bid_id, ok) ==
    IF ok THEN [bs EXCEPT ![bid_id] = update(@, [status |-> "pending"])] ELSE bs

\* Variant of accept_bid_checks: the bid's status is not looked at.
accept_bid_checks_any_bid_status(S, u, pid, bid_id) ==
    IF pid \notin DOMAIN S.projects THEN 404
    ELSE IF u # S.projects[pid].client_user_id THEN 403
    ELSE IF bid_id > Len(S.bids) THEN 404
    ELSE IF S.bids[bid_id].project_id # pid THEN 400
    ELSE IF S.projects[pid].status # "open" THEN 400
    ELSE 0

\* The checks before the first write: the status they raise, 0 when all pass.
accept_bid_checks(S, u, pid, bid_id) ==
    IF pid \notin DOMAIN S.projects THEN 404
    ELSE IF u # S.projects[pid].client_user_id THEN 403
    ELSE IF bid_id > Len(S.bids) THEN 404
    ELSE IF S.bids[bid_id].project_id # pid THEN 400
    ELSE IF S.projects[pid].status # "open" THEN 400
    ELSE IF S.bids[bid_id].status # "pending" THEN 400
    ELSE 0

\* Variant of after_contract_failure: the earlier writes are undone.
after_contract_failure_rolled_back(S, S3) == S

\* The store left behind when the contract save fails: nothing is rolled back.
after_contract_failure(S, S3) == S3

\* Variant of accept_bid: the contract is saved before the project is written.
accept_bid_contract_first(S, u, pid, bid_id, f, rejOk) ==
    IF accept_bid_checks(S, u, pid, bid_id) # 0
    THEN Out(accept_bid_checks(S, u, pid, bid_id), <<>>, S)
    ELSE
    LET target_project == S.projects[pid]
        target_bid == S.bids[bid_id]
        wBid == W("bids", bid_id, f.bid)
        wProj == W("projects", pid, f.proj)
        bids1 == [S.bids EXCEPT ![bid_id] = update(@, [status |-> "accepted"])]
        others == other_bids(bids1, pid, bid_id)
        wContract == W("contracts", Len(S.contracts) + 1, f.contract)
        S1 == [S EXCEPT !.bids = bids1]
        S2 == [S1 EXCEPT !.contracts =
                  Append(@, contract_to_save(target_project, pid, target_bid))]
        S3 == [S2 EXCEPT !.bids = RejectOthers(bids1, others, rejOk),
                         !.projects[pid] =
                             update(@, [status |-> "in_progress",
                                        freelancer_user_id |-> target_bid.freelancer_user_id])]
    IN
    IF ~f.bid THEN Out(500, <<wBid>>, S)
    ELSE IF ~f.contract THEN Out(500, <<wBid, wContract>>, S1)
    ELSE IF ~f.proj THEN Out(500, <<wBid, wContract, wProj>>, S2)
    ELSE Out(200, <<wBid, wContract, wProj>> \o RejectWrites(others, rejOk), S3)

\* f.bid, f.proj, f.revert, f.contract: whether that store write succeeds.
accept_bid(S, u, pid, bid_id, f, rejOk) ==
    IF accept_bid_checks(S, u, pid, bid_id) # 0
    THEN Out(accept_bid_checks(S, u, pid, bid_id), <<>>, S)
    ELSE
    LET target_project == S.projects[pid]
        target_bid == S.bids[bid_id]
        wBid == W("bids", bid_id, f.bid)
        wProj == W("projects", pid, f.proj)
        bids1 == [S.bids EXCEPT ![bid_id] = update(@, [status |-> "accepted"])]
        others == other_bids(bids1, pid, bid_id)
        wContract == W("contracts", Len(S.contracts) + 1, f.contract)
        S3 == [S EXCEPT !.bids = RejectOthers(bids1, others, rejOk),
                        !.projects[pid] =
                            update(@, [status |-> "in_progress",
                                       freelancer_user_id |-> target_bid.freelancer_user_id])]
        ws3 == <<wBid, wProj>> \o RejectWrites(others, rejOk) \o <<wContract>>
    IN
    IF ~f.bid THEN Out(500, <<wBid>>, S)
    ELSE IF ~f.proj
    THEN Out(500, <<wBid, wProj, W("bids", bid_id, f.revert)>>,
             [S EXCEPT !.bids = RevertBid(bids1, bid_id, f.revert)])
    ELSE IF ~f.contract THEN Out(500, ws3, after_contract_failure(S, S3))
    ELSE Out(200, ws3,
             [S3 EXCEPT !.contracts =
                 Append(@, contract_to_save(target_project, pid, target_bid))])

\* ------------------------------------------------- submit_work_for_project
Max(S) == CHOOSE x \in S : \A y \in S : y <= x

\* Variant of current_version: the highest version is not incremented.
current_version_not_incremented(subs, pid) ==
    IF query(subs, pid) = {} THEN 1
    ELSE Max({subs[i].version : i \in query(subs, pid)})

\* 1 for the project's first submission, otherwise the highest version + 1.
current_version(subs, pid) ==
    IF query(subs, pid) = {} THEN 1
    ELSE Max({subs[i].version : i \in query(subs, pid)}) + 1

\* Variant of active_contract_exists: the contract's status is not looked at.
active_contract_exists_any_status(S, pid) ==
    \E c \in query(S.contracts, pid) :
        S.contracts[c].freelancer_id = S.projects[pid].freelancer_user_id

active_contract_exists(S, pid) ==
    \E c \in query(S.contracts, pid) :
        /\ S.contracts[c].freelancer_id = S.projects[pid].freelancer_user_id
        /\ S.contracts[c].status = "active"

\* The checks before the first write: the status they raise, 0 when all pass.
submit_work_checks(S, u, pid) ==
    IF pid \notin DOMAIN S.projects THEN 404
    ELSE IF S.projects[pid].freelancer_user_id = None THEN 403
    ELSE IF u # S.projects[pid].freelancer_user_id THEN 403
    ELSE IF S.projects[pid].status # "in_progress" THEN 400
    ELSE IF ~active_contract_exists(S, pid) THEN 400
    ELSE 0

\* Variant of after_status_failure: the saved submission is removed again.
after_status_failure_rolled_back(S, S1) == S

\* The store left behind when the status write fails: the submission stays.
after_status_failure(S, S1) == S1

\* f.sub, f.proj: whether that store write succeeds.
submit_work_for_project(S, u, pid, f) ==
    LET submission_id == Len(S.submissions) + 1
        submission_to_save == [project_id |-> pid, freelancer_id |-> u,
                               version |-> current_version(S.submissions, pid)]
        wSub == W("submissions", submission_id, f.sub)
        S1 == [S EXCEPT !.submissions = Append(@, submission_to_save)]
    IN
    IF submit_work_checks(S, u, pid) # 0
    THEN Out(submit_work_checks(S, u, pid), <<>>, S)
    ELSE IF ~f.sub THEN Out(500, <<wSub>>, S)
    ELSE IF ~f.proj
    THEN Out(500, <<wSub, W("projects", pid, FALSE)>>, after_status_failure(S, S1))
    ELSE Out(201, <<wSub, W("projects", pid, TRUE)>>,
             [S1 EXCEPT !.projects[pid] = update(@, [status |-> "awaiting_review"])])

\* ------------------------------------------------------ approve_submission
\* Variant of active_contracts_for_freelancer: the contract is looked up by
\* the project alone.
active_contracts_of_project(S, pid) ==
    {c \in query(S.contracts, pid) : S.contracts[c].status = "active"}

\* The contracts the loop over the project's contracts can stop at.
active_contracts_for_freelancer(S, pid) ==
    {c \in query(S.contracts, pid) :
        /\ S.contracts[c].freelancer_id = S.projects[pid].freelancer_user_id
        /\ S.contracts[c].status = "active"}

\* first: the contract the loop stops at (the store fixes the query's order);
\* 0 when there is none.
FirstActive(S, pid, first) ==
    /\ pid \in DOMAIN S.projects
    /\ IF active_contracts_for_freelancer(S, pid) = {} THEN first = 0
       ELSE first \in active_contracts_for_freelancer(S, pid)

\* Variant of approve_submission: a contract write that fails, or no active
\* contract to write, ends the call with 500.
approve_submission_contract_fatal(S, u, pid, submission_id, f, first) ==
    IF pid \notin DOMAIN S.projects THEN Out(404, <<>>, S)
    ELSE IF submission_id > Len(S.submissions) THEN Out(404, <<>>, S)
    ELSE IF u # S.projects[pid].client_user_id THEN Out(403, <<>>, S)
    ELSE IF S.submissions[submission_id].project_id # pid THEN Out(400, <<>>, S)
    ELSE IF S.projects[pid].status # "awaiting_review" THEN Out(400, <<>>, S)
    ELSE IF ~f.proj THEN Out(500, <<W("projects", pid, FALSE)>>, S)
    ELSE
    LET S1 == [S EXCEPT !.projects[pid] = update(@, [status |-> "completed"])]
        wProj == W("projects", pid, TRUE)
    IN
    IF S.projects[pid].freelancer_user_id = None \/ first = 0
    THEN Out(500, <<wProj>>, S1)
    ELSE IF ~f.contract
    THEN Out(500, <<wProj, W("contracts", first, FALSE)>>, S1)
    ELSE Out(200, <<wProj, W("contracts", first, TRUE)>>,
             [S1 EXCEPT !.contracts[first] = update(@, [status |-> "completed"])])

\* f.proj, f.contract: whether that store write succeeds.
approve_submission(S, u, pid, submission_id, f, first) ==
    IF pid \notin DOMAIN S.projects THEN Out(404, <<>>, S)
    ELSE IF submission_id > Len(S.submissions) THEN Out(404, <<>>, S)
    ELSE IF u # S.projects[pid].client_user_id THEN Out(403, <<>>, S)
    ELSE IF S.submissions[submission_id].project_id # pid THEN Out(400, <<>>, S)
    ELSE IF S.projects[pid].status # "awaiting_review" THEN Out(400, <<>>, S)
    ELSE IF ~f.proj THEN Out(500, <<W("projects", pid, FALSE)>>, S)
    ELSE
    LET S1 == [S EXCEPT !.projects[pid] = update(@, [status |-> "completed"])]
        wProj == W("projects", pid, TRUE)
    IN
    IF S.projects[pid].freelancer_user_id = None \/ first = 0
    THEN Out(200, <<wProj>>, S1)
    ELSE IF ~f.contract
    THEN Out(200, <<wProj, W("contracts", first, FALSE)>>, S1)
    ELSE Out(200, <<wProj, W("contracts", first, TRUE)>>,
             [S1 EXCEPT !.contracts[first] = update(@, [status |-> "completed"])])

\* ------------------------------------------------ checkout_project_payment
\* The bids the fallback loop can stop at.
accepted_bids(S, pid) ==
    {b \in query(S.bids, pid) :
        /\ S.bids[b].status = "accepted"
        /\ S.bids[b].freelancer_user_id = S.projects[pid].freelancer_user_id}

\* first: the bid the fallback loop stops at; 0 when there is none.
FirstAccepted(S, pid, first) ==
    /\ pid \in DOMAIN S.projects
    /\ IF accepted_bids(S, pid) = {} THEN first = 0
       ELSE first \in accepted_bids(S, pid)

\* Variant of amount: a budget that is set is used whatever its value.
amount_any_budget(S, pid, first) ==
    IF S.projects[pid].budget # {} THEN S.projects[pid].budget
    ELSE IF first # 0 /\ S.bids[first].amount > 0 THEN {S.bids[first].amount}
    ELSE {}

\* The amount to pay, as a set: {} when it cannot be determined.
amount(S, pid, first) ==
    IF \E x \in S.projects[pid].budget : x > 0 THEN S.projects[pid].budget
    ELSE IF first # 0 /\ S.bids[first].amount > 0 THEN {S.bids[first].amount}
    ELSE {}

\* Variant of already_paid: the type compared with is the schema comment's
\* 'payment', which no stored transaction has.
already_paid_other_type(S, pid) ==
    \E t \in query(S.transactions, pid) :
        /\ S.transactions[t].transaction_type = "payment"
        /\ S.transactions[t].status = "completed"

\* Variant of already_paid: every project counts as paid.
already_paid_always(S, pid) == TRUE

already_paid(S, pid) ==
    \E t \in query(S.transactions, pid) :
        /\ S.transactions[t].transaction_type = "project_payment"
        /\ S.transactions[t].status = "completed"

\* Variant of checkout_project_payment: the project's status is not looked at.
checkout_project_payment_any_status(S, u, pid, first, ok) ==
    LET transaction_id == Len(S.transactions) + 1
        transaction_to_save(a) ==
            [project_id |-> pid, payer_user_id |-> u,
             payee_user_id |-> S.projects[pid].freelancer_user_id,
             amount |-> a, transaction_type |-> "project_payment",
             status |-> "completed"]
    IN
    IF pid \notin DOMAIN S.projects THEN Out(404, <<>>, S)
    ELSE IF u # S.projects[pid].client_user_id THEN Out(403, <<>>, S)
    ELSE IF S.projects[pid].freelancer_user_id = None THEN Out(400, <<>>, S)
    ELSE IF already_paid(S, pid) THEN Out(400, <<>>, S)
    ELSE IF amount(S, pid, first) = {} THEN Out(400, <<>>, S)
    ELSE IF ~ok THEN Out(500, <<W("transactions", transaction_id, FALSE)>>, S)
    ELSE Out(201, <<W("transactions", transaction_id, TRUE)>>,
             [S EXCEPT !.transactions =
                 Append(@, transaction_to_save(CHOOSE a \in amount(S, pid, first) : TRUE))])

checkout_project_payment(S, u, pid, first, ok) ==
    LET transaction_id == Len(S.transactions) + 1
        transaction_to_save(a) ==
            [project_id |-> pid, payer_user_id |-> u,
             payee_user_id |-> S.projects[pid].freelancer_user_id,
             amount |-> a, transaction_type |-> "project_payment",
             status |-> "completed"]
    IN
    IF pid \notin DOMAIN S.projects THEN Out(404, <<>>, S)
    ELSE IF u # S.projects[pid].client_user_id THEN Out(403, <<>>, S)
    ELSE IF S.projects[pid].status # "completed" THEN Out(400, <<>>, S)
    ELSE IF S.projects[pid].freelancer_user_id = None THEN Out(400, <<>>, S)
    ELSE IF already_paid(S, pid) THEN Out(400, <<>>, S)
    ELSE IF amount(S, pid, first) = {} THEN Out(400, <<>>, S)
    ELSE IF ~ok THEN Out(500, <<W("transactions", transaction_id, FALSE)>>, S)
    ELSE Out(201, <<W("transactions", transaction_id, TRUE)>>,
             [S EXCEPT !.transactions =
                 Append(@, transaction_to_save(CHOOSE a \in amount(S, pid, first) : TRUE))])

\* ---------------------------------------------------------- withdraw_funds
\* Optional[UUID] = None of a transaction's project_id.
NoProject == 0

\* Variant of withdraw_funds: the freelancer must have been paid before.
withdraw_funds_balance_checked(S, u, amt, ok) ==
    IF role(u) # "freelancer" THEN Out(403, <<>>, S)
    ELSE IF amt <= 0 THEN Out(400, <<>>, S)
    ELSE IF ~ \E t \in 1 .. Len(S.transactions) :
                 /\ S.transactions[t].payee_user_id = u
                 /\ S.transactions[t].transaction_type = "project_payment"
    THEN Out(400, <<>>, S)
    ELSE Out(201, <<W("transactions", Len(S.transactions) + 1, TRUE)>>, S)

withdraw_funds(S, u, amt, ok) ==
    LET transaction_id == Len(S.transactions) + 1
        transaction_to_save ==
            [project_id |-> NoProject, payer_user_id |-> None, payee_user_id |-> u,
             amount |-> amt, transaction_type |-> "withdrawal", status |-> "pending"]
    IN
    IF role(u) # "freelancer" THEN Out(403, <<>>, S)
    ELSE IF amt <= 0 THEN Out(400, <<>>, S)
    ELSE IF ~ok THEN Out(500, <<W("transactions", transaction_id, FALSE)>>, S)
    ELSE Out(201, <<W("transactions", transaction_id, TRUE)>>,
             [S EXCEPT !.transactions = Append(@, transaction_to_save)])

\* ---------------------------------------------------------- start_new_chat
\* An identifier that is no document of the users collection.
NoUser == "nobody"

\* ChatInitiateRequest.project_context_id: a project id, or NoProject for none.
Contexts == {NoProject, 1}

\* The chats a query of start_new_chat streams: those with the two
\* participants in the given order, and with the context of the request only
\* when the request carries one (`if chat_request.project_context_id:`).
existing_chats(S, participant1_id, participant2_id, project_context_id) ==
    {i \in 1 .. Len(S.chats) :
        /\ S.chats[i].participant1_id = participant1_id
        /\ S.chats[i].participant2_id = participant2_id
        /\ project_context_id # NoProject =>
               S.chats[i].project_context_id = project_context_id}

\* docs[0] of the stream of a query without order: any chat of the result.
\* first is the chat the handler returns from its two queries, 0 for none.
FirstChat(S, u, participant2_id, project_context_id, first) ==
    LET docs_q1 == existing_chats(S, u, participant2_id, project_context_id)
        docs_q2 == existing_chats(S, participant2_id, u, project_context_id)
    IN IF docs_q1 # {} THEN first \in docs_q1
       ELSE IF docs_q2 # {} THEN first \in docs_q2
       ELSE first = 0

\* The result carries in `chat` the id of the chat returned, 0 for none.
start_new_chat(S, u, participant2_id, project_context_id, first, ok) ==
    LET chat_id == Len(S.chats) + 1
        chat_to_save ==
            [participant1_id |-> u, participant2_id |-> participant2_id,
             project_context_id |-> project_context_id]
        Chat(r, id) == [code |-> r.code, writes |-> r.writes, store |-> r.store,
                        chat |-> id]
    IN
    IF u \notin Users THEN Chat(Out(404, <<>>, S), 0)
    ELSE IF u = participant2_id THEN Chat(Out(400, <<>>, S), 0)
    ELSE IF participant2_id \notin Users THEN Chat(Out(404, <<>>, S), 0)
    ELSE IF first # 0 THEN Chat(Out(201, <<>>, S), first)
    ELSE IF ~ok THEN Chat(Out(500, <<W("chats", chat_id, FALSE)>>, S), 0)
    ELSE Chat(Out(201, <<W("chats", chat_id, TRUE)>>,
                  [S EXCEPT !.chats = Append(@, chat_to_save)]), chat_id)

\* ----------------------------------------------------------- submit_review
\* round(total_rating / num_reviews, 2) over the given reviews, in hundredths
\* (with integer ratings and fewer than four reviews no quotient is a tie).
new_average_rating(revs, ids) ==
    LET RECURSIVE Sum(_)
        Sum(I) == IF I = {} THEN 0
                  ELSE LET i == CHOOSE x \in I : TRUE
                       IN revs[i].rating + Sum(I \ {i})
        n == Cardinality(ids)
    IN (200 * Sum(ids) + n) \div (2 * n)

\* Variant of existing_review: the stored ids never compare equal to the
\* request's.
existing_review_unchecked(S, review_in) == FALSE

\* The project has a review with the request's reviewer and reviewee.
existing_review(S, review_in) ==
    \E i \in query(S.reviews, review_in.project_id) :
        /\ S.reviews[i].reviewer_user_id = review_in.reviewer_user_id
        /\ S.reviews[i].reviewee_user_id = review_in.reviewee_user_id

\* Variant of project_reviewable: the project's status is not looked at.
project_reviewable_any_status(target_project) == TRUE

\* Reviews can only be submitted for completed projects.
project_reviewable(target_project) == target_project.status = "completed"

\* The checks before the save: the status they raise, 0 when all pass.
submit_review_checks(S, u, review_in) ==
    IF review_in.reviewer_user_id # u THEN 403
    ELSE IF review_in.project_id \notin DOMAIN S.projects THEN 404
    ELSE
    LET target_project == S.projects[review_in.project_id]
        is_reviewer_client == u = target_project.client_user_id
        is_reviewer_freelancer ==
            /\ target_project.freelancer_user_id # None
            /\ u = target_project.freelancer_user_id
    IN
    IF ~project_reviewable(target_project) THEN 400
    ELSE IF is_reviewer_client
    THEN IF review_in.reviewee_user_id # target_project.freelancer_user_id
         THEN 400
         ELSE IF existing_review(S, review_in) THEN 400 ELSE 0
    ELSE IF is_reviewer_freelancer
    THEN IF review_in.reviewee_user_id # target_project.client_user_id
         THEN 400
         ELSE IF existing_review(S, review_in) THEN 400 ELSE 0
    ELSE 403

\* f.review, f.profile: whether that store write succeeds.  After the save,
\* a client's review updates the freelancer's average rating over all the
\* reviews of that freelancer; a failure of that write is only logged.
submit_review(S, u, review_in, f) ==
    LET review_id == Len(S.reviews) + 1
        wReview == W("reviews", review_id, f.review)
        S1 == [S EXCEPT !.reviews = Append(@, review_in)]
    IN
    IF submit_review_checks(S, u, review_in) # 0
    THEN Out(submit_review_checks(S, u, review_in), <<>>, S)
    ELSE IF ~f.review THEN Out(500, <<wReview>>, S)
    ELSE
    LET target_project == S.projects[review_in.project_id]
        freelancer_id_to_update == target_project.freelancer_user_id
        all_freelancer_reviews ==
            {i \in 1 .. Len(S1.reviews) :
                S1.reviews[i].reviewee_user_id = freelancer_id_to_update}
        wProfile == W("freelancer_profiles", freelancer_id_to_update, f.profile)
    IN
    IF u # target_project.client_user_id \/ freelancer_id_to_update = None
       \/ all_freelancer_reviews = {}
    THEN Out(201, <<wReview>>, S1)
    ELSE IF ~f.profile THEN Out(201, <<wReview, wProfile>>, S1)
    ELSE Out(201, <<wReview, wProfile>>,
             [S1 EXCEPT !.freelancer_profiles[freelancer_id_to_update] =
                 new_average_rating(S1.reviews, all_freelancer_reviews)])

\* -------------------------------------------------- update_contract_status
VALID_CONTRACT_STATUSES == {"active", "completed", "terminated", "disputed"}

\* Variant of update_contract_status: datetime is imported and the write is
\* reached.
update_contract_status_written(S, u, contract_id, new_status) ==
    IF contract_id > Len(S.contracts) THEN Out(404, <<>>, S)
    ELSE IF /\ u # S.contracts[contract_id].client_id
            /\ u # S.contracts[contract_id].freelancer_id
    THEN Out(403, <<>>, S)
    ELSE IF new_status \notin VALID_CONTRACT_STATUSES THEN Out(400, <<>>, S)
    ELSE Out(200, <<W("contracts", contract_id, TRUE)>>,
             [S EXCEPT !.contracts[contract_id] = update(@, [status |-> new_status])])

\* The handler builds its updates with datetime.utcnow(), and the module does
\* not import datetime: a valid request ends in a NameError (500) before the
\* store is written.
update_contract_status(S, u, contract_id, new_status) ==
    IF contract_id > Len(S.contracts) THEN Out(404, <<>>, S)
    ELSE IF /\ u # S.contracts[contract_id].client_id
            /\ u # S.contracts[contract_id].freelancer_id
    THEN Out(403, <<>>, S)
    ELSE IF new_status \notin VALID_CONTRACT_STATUSES THEN Out(400, <<>>, S)
    ELSE Out(500, <<>>, S)

\* --------------------------------------------------------------- requests
\* The request bodies of update_project that are enumerated.
ProjectPatches ==
    UNION {{[k \in K |-> CASE k = "status" -> s
                           [] k = "freelancer_user_id" -> fr
                           [] k = "client_user_id" -> "f1"
                           [] k = "project_id" -> MaxBidAreaProjects + 1
                           [] k = "creation_date" -> ImportTime + 1
                           [] OTHER -> "x"] :
                s \in Statuses, fr \in Freelancers \cup {None}} :
           K \in {{"title"}, {"client_user_id"}, {"status"}, {"freelancer_user_id"},
                   {"status", "client_user_id"}, {"project_id"}, {"creation_date"},
                   {"client_user_id", "project_id", "creation_date"},
                   {"creation_date", "status"}}}

\* The request bodies of submit_bid that are enumerated, for a set of amounts.
BidBodies(amounts) ==
    [amount : amounts, project_id : ProjectIds, freelancer_user_id : Users]

\* The request bodies of update_bid that are enumerated.
BidPatches ==
    UNION {{[k \in K |-> CASE k = "status" -> s [] k = "amount" -> a [] OTHER -> "x"] :
                s \in {"withdrawn", "accepted", "rejected"}, a \in Amounts} :
           K \in {{"bid_id"}, {"amount"}, {"status"}, {"status", "amount"}}}

\* Which writes of accept_bid succeed: the writes after a failed one that the
\* handler does not reach are left at TRUE.
AcceptFlags ==
    {f \in [bid : BOOLEAN, proj : BOOLEAN, revert : BOOLEAN, contract : BOOLEAN] :
        /\ ~f.bid => f.proj
        /\ f.proj => f.revert
        /\ ~f.proj => f.contract}

\* Which writes of the rejection loop succeed (all, when it is not reached).
RejectFlags(f) == IF f.bid /\ f.proj THEN SUBSET BidIds ELSE {BidIds}

SubmitFlags == {f \in [sub : BOOLEAN, proj : BOOLEAN] : ~f.sub => f.proj}

ApproveFlags == {f \in [proj : BOOLEAN, contract : BOOLEAN] : ~f.proj => f.contract}

\* ------------------------------------------- accept_bid, one step at a time
\* Two accept_bid requests whose store reads and writes interleave with each
\* other and with other requests.
AcceptProcs == {1, 2}

\* A request: pc is the handler's position, target_project and target_bid the
\* documents as it read them (a set: empty until read), others the bids the
\* rejection loop still has to write, code the response once it has returned.
\* For the other handlers taken in steps: amount is checkout's amount once
\* determined (a set), version is submit_work's current_version once computed.
Idle ==
    [pc |-> "idle", u |-> None, pid |-> 0, bid_id |-> 0,
     target_project |-> {}, target_bid |-> {}, others |-> {}, code |-> 0,
     amount |-> {}, version |-> 0]

\* The request has returned with the given status.
Finish(pr, code) ==
    [Idle EXCEPT !.pc = "done", !.code = code, !.pid = pr.pid, !.bid_id = pr.bid_id]

\* The store as the request sees it: the project as read, the bids as stored.
View(S, pr) ==
    [S EXCEPT !.projects = [q \in {pr.pid} |-> CHOOSE d \in pr.target_project : TRUE]]

Init ==
    /\ store = [projects |-> <<>>, nProjects |-> 0, bids |-> <<>>,
                contracts |-> <<>>, submissions |-> <<>>, transactions |-> <<>>,
                reviews |-> <<>>, chats |-> <<>>,
                freelancer_profiles |-> [f \in Freelancers |-> 0]]
    /\ procs = [p \in AcceptProcs |-> Idle]

\* The collections stay within the bounds of the model.
Bounded(S, maxProjects) ==
    /\ S.nProjects <= maxProjects
    /\ Cardinality(DOMAIN S.projects) <= MaxLiveProjects
    /\ Len(S.bids) <= MaxBids
    /\ Len(S.contracts) <= MaxContracts
    /\ Len(S.submissions) <= MaxSubmissions
    /\ Len(S.transactions) <= MaxTransactions
    /\ Len(S.reviews) <= MaxReviews
    /\ Len(S.chats) <= MaxChats

\* A request is served: the store becomes the one the handler left.  A request
\* that leaves the store as it was is a stuttering step.
Request(r, maxProjects) ==
    /\ r.store # store
    /\ store' = r.store
    /\ Bounded(store', maxProjects)
    /\ UNCHANGED procs

Req_create_project(n) ==
    \E u \in Users, st \in Statuses, bg \in Budgets, ok \in BOOLEAN :
        Request(create_project(store, u, st, bg, ok), n)

Req_update_project(n) ==
    \E u \in Users, pid \in ProjectIds, body \in ProjectPatches, ok \in BOOLEAN :
        Request(update_project(store, u, pid, body, ok), n)

Req_delete_project(n) ==
    \E u \in Users, pid \in ProjectIds, ok \in BOOLEAN :
        Request(delete_project(store, u, pid, ok), n)

Req_submit_bid(n) ==
    \E u \in Users, pid \in ProjectIds, bid_in \in BidBodies(Amounts), ok \in BOOLEAN :
        Request(submit_bid_for_project(store, u, pid, bid_in, ok), n)

Req_update_bid(n) ==
    \E u \in Users, bid_id \in BidIds, d \in BidPatches, ok \in BOOLEAN :
        Request(update_bid(store, u, bid_id, d, ok), n)

Req_accept_bid(n) ==
    \E u \in Users, pid \in ProjectIds, bid_id \in BidIds, f \in AcceptFlags :
        \E rejOk \in RejectFlags(f) :
            Request(accept_bid(store, u, pid, bid_id, f, rejOk), n)

Req_submit_work(n) ==
    \E u \in Users, pid \in ProjectIds, f \in SubmitFlags :
        Request(submit_work_for_project(store, u, pid, f), n)

Req_approve_submission(n) ==
    \E u \in Users, pid \in ProjectIds, sid \in SubmissionIds, f \in ApproveFlags,
       first \in {0} \cup ContractIds :
        /\ FirstActive(store, pid, first)
        /\ Request(approve_submission(store, u, pid, sid, f, first), n)

Req_checkout(n) ==
    \E u \in Users, pid \in ProjectIds, first \in {0} \cup BidIds, ok \in BOOLEAN :
        /\ FirstAccepted(store, pid, first)
        /\ Request(checkout_project_payment(store, u, pid, first, ok), n)

\* A read never changes the store.
Req_list_bids ==
    \E u \in Users, pid \in ProjectIds :
        /\ store' = list_bids_for_project(store, u, pid).store
        /\ UNCHANGED procs

\* Never changes the store (see update_contract_status).
Req_update_contract_status ==
    \E u \in Users, c \in ContractIds, st \in VALID_CONTRACT_STATUSES \cup {"paused"} :
        /\ store' = update_contract_status(store, u, c, st).store
        /\ UNCHANGED procs

\* Every handler of the engagement lifecycle, one project id.
Next ==
    \/ Req_create_project(MaxProjects)
    \/ Req_update_project(MaxProjects)
    \/ Req_delete_project(MaxProjects)
    \/ Req_submit_bid(MaxProjects)
    \/ Req_update_bid(MaxProjects)
    \/ Req_accept_bid(MaxProjects)
    \/ Req_submit_work(MaxProjects)
    \/ Req_approve_submission(MaxProjects)
    \/ Req_checkout(MaxProjects)
    \/ Req_update_contract_status
    \/ Req_list_bids

Spec == Init /\ [][Next]_vars

\* The handlers of the bid area (projects, bids, contracts), with a second
\* project id: bids of another (deleted) project are in the store.
NextBids ==
    \/ Req_create_project(MaxBidAreaProjects)
    \/ Req_update_project(MaxBidAreaProjects)
    \/ Req_delete_project(MaxBidAreaProjects)
    \/ Req_submit_bid(MaxBidAreaProjects)
    \/ Req_update_bid(MaxBidAreaProjects)
    \/ Req_accept_bid(MaxBidAreaProjects)

SpecBids == Init /\ [][NextBids]_vars

\* Variant of save_contract: the document id is derived from the project, so
\* a second contract of a project replaces the first.
save_contract_by_project(contracts, contract) ==
    IF \E c \in 1 .. Len(contracts) : contracts[c].project_id = contract.project_id
    THEN [c \in 1 .. Len(contracts) |->
             IF contracts[c].project_id = contract.project_id THEN contract
             ELSE contracts[c]]
    ELSE Append(contracts, contract)

\* The contract is saved under a fresh id.
save_contract(contracts, contract) == Append(contracts, contract)

\* The request arrives and reads the project.
AcceptReadProject(p) ==
    /\ procs[p].pc = "idle"
    /\ \A q \in AcceptProcs : q < p => procs[q].pc # "idle"
    /\ \E u \in Users, pid \in 1 .. MaxProjects, bid_id \in BidIds :
           LET pr == [Idle EXCEPT !.u = u, !.pid = pid, !.bid_id = bid_id]
           IN procs' = [procs EXCEPT ![p] =
                 IF pid \notin DOMAIN store.projects THEN Finish(pr, 404)
                 ELSE IF u # store.projects[pid].client_user_id THEN Finish(pr, 403)
                 ELSE [pr EXCEPT !.pc = "read_bid",
                                 !.target_project = {store.projects[pid]}]]
    /\ UNCHANGED store

\* It reads the bid and runs the remaining checks, on the project as read.
AcceptReadBid(p) ==
    LET pr == procs[p]
        code == accept_bid_checks(View(store, pr), pr.u, pr.pid, pr.bid_id)
    IN /\ pr.pc = "read_bid"
       /\ procs' = [procs EXCEPT ![p] =
              IF code # 0 THEN Finish(pr, code)
              ELSE [pr EXCEPT !.pc = "write_bid",
                              !.target_bid = {store.bids[pr.bid_id]}]]
       /\ UNCHANGED store

\* It writes status accepted to the bid.
AcceptWriteBid(p) ==
    LET pr == procs[p]
    IN /\ pr.pc = "write_bid"
       /\ \E ok \in BOOLEAN :
              IF ok
              THEN /\ store' = [store EXCEPT !.bids[pr.bid_id] =
                                    update(@, [status |-> "accepted"])]
                   /\ procs' = [procs EXCEPT ![p].pc = "write_project"]
              ELSE /\ procs' = [procs EXCEPT ![p] = Finish(pr, 500)]
                   /\ UNCHANGED store

\* It writes status in_progress and the freelancer to the project.
AcceptWriteProject(p) ==
    LET pr == procs[p]
        target_bid == CHOOSE d \in pr.target_bid : TRUE
    IN /\ pr.pc = "write_project"
       /\ \E ok \in BOOLEAN :
              IF ok /\ pr.pid \in DOMAIN store.projects
              THEN /\ store' = [store EXCEPT !.projects[pr.pid] =
                                    update(@, [status |-> "in_progress",
                                               freelancer_user_id |->
                                                   target_bid.freelancer_user_id])]
                   /\ procs' = [procs EXCEPT ![p].pc = "query_others"]
              ELSE /\ procs' = [procs EXCEPT ![p].pc = "revert"]
                   /\ UNCHANGED store

\* After a failed project write: the compensating write, then the error.
AcceptRevert(p) ==
    LET pr == procs[p]
    IN /\ pr.pc = "revert"
       /\ \E ok \in BOOLEAN :
              store' = [store EXCEPT !.bids = RevertBid(@, pr.bid_id, ok)]
       /\ procs' = [procs EXCEPT ![p] = Finish(pr, 500)]

\* It queries the project's bids for the rejection loop.
AcceptQueryOthers(p) ==
    LET pr == procs[p]
    IN /\ pr.pc = "query_others"
       /\ procs' = [procs EXCEPT ![p].pc = "reject",
                                 ![p].others = other_bids(store.bids, pr.pid, pr.bid_id)]
       /\ UNCHANGED store

\* One write of the rejection loop, in the order of the query's result.
AcceptReject(p) ==
    LET pr == procs[p]
        i == CHOOSE x \in pr.others : \A y \in pr.others : x <= y
    IN /\ pr.pc = "reject"
       /\ pr.others # {}
       /\ \E ok \in BOOLEAN :
              store' = [store EXCEPT !.bids =
                           RejectOthers(@, {i}, IF ok THEN {i} ELSE {})]
       /\ procs' = [procs EXCEPT ![p].others = @ \ {i}]

\* After the loop: the contract is built from the documents as read and
\* saved; the request returns.
AcceptSaveContract(p) ==
    LET pr == procs[p]
        target_project == CHOOSE d \in pr.target_project : TRUE
        target_bid == CHOOSE d \in pr.target_bid : TRUE
    IN /\ pr.pc = "reject"
       /\ pr.others = {}
       /\ \E ok \in BOOLEAN :
              IF ok
              THEN /\ store' = [store EXCEPT !.contracts =
                                    save_contract(@, contract_to_save(target_project,
                                                                      pr.pid, target_bid))]
                   /\ Len(store'.contracts) <= MaxContracts
                   /\ procs' = [procs EXCEPT ![p] = Finish(pr, 200)]
              ELSE /\ procs' = [procs EXCEPT ![p] = Finish(pr, 500)]
                   /\ UNCHANGED store

\* The requests that set the scene: a client opens a project.
Conc_create_project ==
    \E u \in Users, ok \in BOOLEAN :
        Request(create_project(store, u, "open", {}, ok), MaxProjects)

\* Interleaved accept_bid requests, next to submit_bid and update_bid.
NextConc ==
    \/ Conc_create_project
    \/ Req_submit_bid(MaxProjects)
    \/ Req_update_bid(MaxProjects)
    \/ \E p \in AcceptProcs :
           \/ AcceptReadProject(p)
           \/ AcceptReadBid(p)
           \/ AcceptWriteBid(p)
           \/ AcceptWriteProject(p)
           \/ AcceptRevert(p)
           \/ AcceptQueryOthers(p)
           \/ AcceptReject(p)
           \/ AcceptSaveContract(p)

SpecConc == Init /\ [][NextConc]_vars

\* The payment area: budgets and bid amounts that are not positive as well
\* (neither schema constrains them), the handlers from the bid to the checkout.
AnyBudgets == {{}, {0}, {100}}
AnyAmounts == {0, 90}

Req_create_project_any_budget ==
    \E u \in Users, st \in Statuses, bg \in AnyBudgets, ok \in BOOLEAN :
        Request(create_project(store, u, st, bg, ok), MaxProjects)

Req_submit_bid_any_amount ==
    \E u \in Users, pid \in ProjectIds, bid_in \in BidBodies(AnyAmounts),
       ok \in BOOLEAN :
        Request(submit_bid_for_project(store, u, pid, bid_in, ok), MaxProjects)

NextPay ==
    \/ Req_create_project_any_budget
    \/ Req_update_project(MaxProjects)
    \/ Req_submit_bid_any_amount
    \/ Req_accept_bid(MaxProjects)
    \/ Req_submit_work(MaxProjects)
    \/ Req_approve_submission(MaxProjects)
    \/ Req_checkout(MaxProjects)

SpecPay == Init /\ [][NextPay]_vars

\* The request bodies of submit_review that are enumerated (ReviewCreate).
Ratings == {2, 5}

ReviewBodies ==
    [project_id : 1 .. MaxProjects, reviewer_user_id : Users,
     reviewee_user_id : Users, rating : Ratings]

ReviewFlags == {f \in [review : BOOLEAN, profile : BOOLEAN] : ~f.review => f.profile}

Req_submit_review ==
    \E u \in Users, review_in \in ReviewBodies, f \in ReviewFlags :
        Request(submit_review(store, u, review_in, f), MaxProjects)

\* Reviews: a client creates a project, assigns a freelancer and sets the
\* status (or deletes the project); the two parties review each other.
NextReviews ==
    \/ Req_create_project(MaxProjects)
    \/ Req_update_project(MaxProjects)
    \/ Req_delete_project(MaxProjects)
    \/ Req_submit_review

SpecReviews == Init /\ [][NextReviews]_vars

\* The engagement from the project to the reviews, every store write
\* succeeding, the project being deleted at any point of it.
Life_create_project ==
    \E u \in Users, bg \in Budgets :
        Request(create_project(store, u, "open", bg, TRUE), MaxProjects)

Life_submit_bid ==
    \E u \in Users, pid \in ProjectIds, bid_in \in BidBodies(Amounts) :
        Request(submit_bid_for_project(store, u, pid, bid_in, TRUE), MaxProjects)

Life_accept_bid ==
    \E u \in Users, pid \in ProjectIds, bid_id \in BidIds :
        Request(accept_bid(store, u, pid, bid_id,
                           [bid |-> TRUE, proj |-> TRUE, revert |-> TRUE,
                            contract |-> TRUE], BidIds), MaxProjects)

Life_submit_work ==
    \E u \in Users, pid \in ProjectIds :
        Request(submit_work_for_project(store, u, pid, [sub |-> TRUE, proj |-> TRUE]),
                MaxProjects)

Life_approve_submission ==
    \E u \in Users, pid \in ProjectIds, sid \in SubmissionIds,
       first \in {0} \cup ContractIds :
        /\ FirstActive(store, pid, first)
        /\ Request(approve_submission(store, u, pid, sid,
                                      [proj |-> TRUE, contract |-> TRUE], first),
                   MaxProjects)

Life_checkout ==
    \E u \in Users, pid \in ProjectIds, first \in {0} \cup BidIds :
        /\ FirstAccepted(store, pid, first)
        /\ Request(checkout_project_payment(store, u, pid, first, TRUE), MaxProjects)

Life_submit_review ==
    \E u \in Users, review_in \in ReviewBodies :
        Request(submit_review(store, u, review_in, [review |-> TRUE, profile |-> TRUE]),
                MaxProjects)

NextFrame ==
    \/ Life_create_project
    \/ Life_submit_bid
    \/ Life_accept_bid
    \/ Life_submit_work
    \/ Life_approve_submission
    \/ Life_checkout
    \/ Life_submit_review
    \/ Req_delete_project(MaxProjects)

SpecFrame == Init /\ [][NextFrame]_vars

\* Chats between the users, requested one at a time.
ChatIds == 1 .. MaxChats

Req_start_new_chat ==
    \E u \in Users \cup {NoUser}, participant2_id \in Users \cup {NoUser},
       project_context_id \in Contexts, first \in {0} \cup ChatIds, ok \in BOOLEAN :
        /\ FirstChat(store, u, participant2_id, project_context_id, first)
        /\ Request(start_new_chat(store, u, participant2_id, project_context_id,
                                  first, ok), MaxProjects)

NextChats == Req_start_new_chat

SpecChats == Init /\ [][NextChats]_vars

\* ------------------------------- submit_bid_for_project, one step at a time
\* A submit_bid request whose store reads and its write interleave with other
\* requests; no store operation fails.  The request arrives and reads the
\* project.
SubmitBidReadProject(p) ==
    /\ procs[p].pc = "idle"
    /\ \A q \in AcceptProcs : q < p => procs[q].pc # "idle"
    /\ \E u \in Users, pid \in 1 .. MaxProjects :
           LET pr == [Idle EXCEPT !.u = u, !.pid = pid]
           IN procs' = [procs EXCEPT ![p] =
                 IF role(u) # "freelancer" THEN Finish(pr, 403)
                 ELSE IF pid \notin DOMAIN store.projects THEN Finish(pr, 404)
                 ELSE IF store.projects[pid].status # "open" THEN Finish(pr, 400)
                 ELSE [pr EXCEPT !.pc = "query_existing_bids",
                                 !.target_project = {store.projects[pid]}]]
    /\ UNCHANGED store

\* It queries the project's bids and looks for one of the caller.
SubmitBidQueryExisting(p) ==
    LET pr == procs[p]
    IN /\ pr.pc = "query_existing_bids"
       /\ procs' = [procs EXCEPT ![p] =
              IF existing_bid(store, pr.pid, pr.u) THEN Finish(pr, 400)
              ELSE [pr EXCEPT !.pc = "save_bid"]]
       /\ UNCHANGED store

\* It saves the bid under a fresh id and returns.
SubmitBidSave(p) ==
    LET pr == procs[p]
    IN /\ pr.pc = "save_bid"
       /\ \E bid_in \in BidBodies(Amounts) :
              store' = [store EXCEPT !.bids = Append(@, bid_to_save(pr.pid, pr.u, bid_in))]
       /\ Len(store'.bids) <= MaxBids
       /\ procs' = [procs EXCEPT ![p] = Finish(pr, 201)]

\* submit_bid requests in steps next to whole accept_bid and submit_bid
\* requests.
NextRaceBid ==
    \/ Life_create_project
    \/ Life_submit_bid
    \/ Life_accept_bid
    \/ \E p \in AcceptProcs :
           \/ SubmitBidReadProject(p)
           \/ SubmitBidQueryExisting(p)
           \/ SubmitBidSave(p)

SpecRaceBid == Init /\ [][NextRaceBid]_vars

\* The requests of the bid area one at a time, no store write failing.
Seq_create_project ==
    \E u \in Users, st \in Statuses, bg \in Budgets :
        Request(create_project(store, u, st, bg, TRUE), MaxProjects)

Seq_update_project ==
    \E u \in Users, pid \in ProjectIds, body \in ProjectPatches :
        Request(update_project(store, u, pid, body, TRUE), MaxProjects)

Seq_delete_project ==
    \E u \in Users, pid \in ProjectIds :
        Request(delete_project(store, u, pid, TRUE), MaxProjects)

Seq_update_bid ==
    \E u \in Users, bid_id \in BidIds, d \in BidPatches :
        Request(update_bid(store, u, bid_id, d, TRUE), MaxProjects)

NextSeq ==
    \/ Seq_create_project
    \/ Seq_update_project
    \/ Seq_delete_project
    \/ Life_submit_bid
    \/ Seq_update_bid
    \/ Life_accept_bid

SpecSeq == Init /\ [][NextSeq]_vars

\* ----------------------------- checkout_project_payment, one step at a time
\* Two checkout requests whose store reads and their write interleave; no
\* store operation fails.  The request arrives, reads the project and checks
\* the caller, the status and the freelancer.
CheckoutReadProject(p) ==
    /\ procs[p].pc = "idle"
    /\ \A q \in AcceptProcs : q < p => procs[q].pc # "idle"
    /\ \E u \in Users, pid \in 1 .. MaxProjects :
           LET pr == [Idle EXCEPT !.u = u, !.pid = pid]
           IN procs' = [procs EXCEPT ![p] =
                 IF pid \notin DOMAIN store.projects THEN Finish(pr, 404)
                 ELSE IF u # store.projects[pid].client_user_id THEN Finish(pr, 403)
                 ELSE IF store.projects[pid].status # "completed" THEN Finish(pr, 400)
                 ELSE IF store.projects[pid].freelancer_user_id = None
                 THEN Finish(pr, 400)
                 ELSE [pr EXCEPT !.pc = "query_transactions",
                                 !.target_project = {store.projects[pid]}]]
    /\ UNCHANGED store

\* It queries the project's transactions for a completed project_payment.
CheckoutQueryTransactions(p) ==
    LET pr == procs[p]
    IN /\ pr.pc = "query_transactions"
       /\ procs' = [procs EXCEPT ![p] =
              IF already_paid(store, pr.pid) THEN Finish(pr, 400)
              ELSE [pr EXCEPT !.pc = "determine_amount"]]
       /\ UNCHANGED store

\* It determines the amount: the budget of the project as read, else the
\* amount of an accepted bid found by a query of the project's bids.
CheckoutDetermineAmount(p) ==
    LET pr == procs[p]
    IN /\ pr.pc = "determine_amount"
       /\ \E first \in {0} \cup BidIds :
              /\ FirstAccepted(View(store, pr), pr.pid, first)
              /\ procs' = [procs EXCEPT ![p] =
                     IF amount(View(store, pr), pr.pid, first) = {} THEN Finish(pr, 400)
                     ELSE [pr EXCEPT !.pc = "save_transaction",
                                     !.amount = amount(View(store, pr), pr.pid, first)]]
       /\ UNCHANGED store

\* It saves the transaction under a fresh id and returns.
CheckoutSave(p) ==
    LET pr == procs[p]
        target_project == CHOOSE d \in pr.target_project : TRUE
        transaction_to_save ==
            [project_id |-> pr.pid, payer_user_id |-> pr.u,
             payee_user_id |-> target_project.freelancer_user_id,
             amount |-> CHOOSE a \in pr.amount : TRUE,
             transaction_type |-> "project_payment", status |-> "completed"]
    IN /\ pr.pc = "save_transaction"
       /\ store' = [store EXCEPT !.transactions = Append(@, transaction_to_save)]
       /\ Len(store'.transactions) <= MaxTransactions
       /\ procs' = [procs EXCEPT ![p] = Finish(pr, 201)]

\* The engagement up to the approval in whole requests, then checkout
\* requests in steps.
NextRacePay ==
    \/ Life_create_project
    \/ Life_submit_bid
    \/ Life_accept_bid
    \/ Life_submit_work
    \/ Life_approve_submission
    \/ \E p \in AcceptProcs :
           \/ CheckoutReadProject(p)
           \/ CheckoutQueryTransactions(p)
           \/ CheckoutDetermineAmount(p)
           \/ CheckoutSave(p)

SpecRacePay == Init /\ [][NextRacePay]_vars

\* ------------------------------ submit_work_for_project, one step at a time
\* Two submit_work requests whose store reads and writes interleave; no store
\* operation fails.  The request arrives, reads the project and checks the
\* freelancer and the status.
SubmitWorkReadProject(p) ==
    /\ procs[p].pc = "idle"
    /\ \A q \in AcceptProcs : q < p => procs[q].pc # "idle"
    /\ \E u \in Users, pid \in 1 .. MaxProjects :
           LET pr == [Idle EXCEPT !.u = u, !.pid = pid]
           IN procs' = [procs EXCEPT ![p] =
                 IF pid \notin DOMAIN store.projects THEN Finish(pr, 404)
                 ELSE IF store.projects[pid].freelancer_user_id = None THEN Finish(pr, 403)
                 ELSE IF u # store.projects[pid].freelancer_user_id THEN Finish(pr, 403)
                 ELSE IF store.projects[pid].status # "in_progress" THEN Finish(pr, 400)
                 ELSE [pr EXCEPT !.pc = "query_contracts",
                                 !.target_project = {store.projects[pid]}]]
    /\ UNCHANGED store

\* It queries the project's contracts for an active one of the freelancer.
SubmitWorkQueryContracts(p) ==
    LET pr == procs[p]
    IN /\ pr.pc = "query_contracts"
       /\ procs' = [procs EXCEPT ![p] =
              IF ~active_contract_exists(View(store, pr), pr.pid) THEN Finish(pr, 400)
              ELSE [pr EXCEPT !.pc = "query_submissions"]]
       /\ UNCHANGED store

\* It queries the project's submissions and computes current_version.
SubmitWorkQuerySubmissions(p) ==
    LET pr == procs[p]
    IN /\ pr.pc = "query_submissions"
       /\ procs' = [procs EXCEPT ![p].pc = "save_submission",
                                 ![p].version = current_version(store.submissions, pr.pid)]
       /\ UNCHANGED store

\* It saves the submission under a fresh id.
SubmitWorkSave(p) ==
    LET pr == procs[p]
        submission_to_save ==
            [project_id |-> pr.pid, freelancer_id |-> pr.u, version |-> pr.version]
    IN /\ pr.pc = "save_submission"
       /\ store' = [store EXCEPT !.submissions = Append(@, submission_to_save)]
       /\ Len(store'.submissions) <= MaxSubmissions
       /\ procs' = [procs EXCEPT ![p].pc = "write_status"]

\* It writes status awaiting_review to the project and returns.
SubmitWorkWriteStatus(p) ==
    LET pr == procs[p]
    IN /\ pr.pc = "write_status"
       /\ store' = [store EXCEPT !.projects[pr.pid] =
                        update(@, [status |-> "awaiting_review"])]
       /\ procs' = [procs EXCEPT ![p] = Finish(pr, 201)]

\* The engagement up to the accepted bid in whole requests, then submit_work
\* requests in steps.
NextRaceWork ==
    \/ Life_create_project
    \/ Life_submit_bid
    \/ Life_accept_bid
    \/ \E p \in AcceptProcs :
           \/ SubmitWorkReadProject(p)
           \/ SubmitWorkQueryContracts(p)
           \/ SubmitWorkQuerySubmissions(p)
           \/ SubmitWorkSave(p)
           \/ SubmitWorkWriteStatus(p)

SpecRaceWork == Init /\ [][NextRaceWork]_vars

\* The lifecycle alone, no store write failing, with budgets and bid amounts
\* that are not positive as well, and its steps taken when they stay enabled.
Live_create_project ==
    \E u \in Users, bg \in AnyBudgets :
        Request(create_project(store, u, "open", bg, TRUE), MaxProjects)

Live_submit_bid ==
    \E u \in Users, pid \in ProjectIds, bid_in \in BidBodies(AnyAmounts) :
        Request(submit_bid_for_project(store, u, pid, bid_in, TRUE), MaxProjects)

NextLive ==
    \/ Live_create_project
    \/ Live_submit_bid
    \/ Life_accept_bid
    \/ Life_submit_work
    \/ Life_approve_submission
    \/ Life_checkout

SpecLive ==
    /\ Init /\ [][NextLive]_vars
    /\ WF_vars(Life_accept_bid)
    /\ WF_vars(Life_submit_work)
    /\ WF_vars(Life_approve_submission)
    /\ WF_vars(Life_checkout)

\* Withdrawals next to project payments: a client creates a project, assigns
\* a freelancer and pays; freelancers withdraw.
WithdrawAmounts == {-5, 0, 50}

Req_withdraw ==
    \E u \in Users, amt \in WithdrawAmounts, ok \in BOOLEAN :
        Request(withdraw_funds(store, u, amt, ok), MaxProjects)

NextWithdraw ==
    \/ Req_create_project(MaxProjects)
    \/ Req_update_project(MaxProjects)
    \/ Req_checkout(MaxProjects)
    \/ Req_withdraw

SpecWithdraw == Init /\ [][NextWithdraw]_vars

\* ------------------------------------------------------------- properties
\* Position of a status in open < in_progress < awaiting_review < completed.
Rank(st) ==
    CASE st = "open" -> 0
      [] st = "in_progress" -> 1
      [] st = "awaiting_review" -> 2
      [] st = "completed" -> 3

\* C1: in every execution, a project's status never moves backward in the
\* order open < in_progress < awaiting_review < completed.
\* (update_project writes whatever status the patch carries.)
C1_StatusNeverRegresses ==
    [][\A p \in DOMAIN store.projects \cap DOMAIN store'.projects :
          Rank(store'.projects[p].status) >= Rank(store.projects[p].status)]_vars

\* The request accept_bid(pid, b) by u passes every check of the handler:
\* u is the project's client, the bid is the project's, open and pending.
AcceptPre(u, pid, b) ==
    /\ pid \in DOMAIN store.projects
    /\ u = store.projects[pid].client_user_id
    /\ b \in 1 .. Len(store.bids)
    /\ store.bids[b].project_id = pid
    /\ store.projects[pid].status = "open"
    /\ store.bids[b].status = "pending"

AllWritesOk == [bid |-> TRUE, proj |-> TRUE, revert |-> TRUE, contract |-> TRUE]

\* The bids of project pid, other than b, that are pending in the store.
PendingSiblings(pid, b) ==
    {i \in 1 .. Len(store.bids) :
        i # b /\ store.bids[i].project_id = pid /\ store.bids[i].status = "pending"}

\* C2: accept_bid by the project's client on an open project and a pending
\* bid of it, every write succeeding: the bid is accepted, every other pending
\* bid of the project is rejected, the project is in_progress with the bid's
\* freelancer, and exactly one contract is added: project, client, the bid's
\* freelancer, agreed_amount = the bid's amount, status active.
C2_AcceptBidCommits ==
    \A u \in Users, pid \in ProjectIds, b \in BidIds :
        AcceptPre(u, pid, b) =>
            LET r == accept_bid(store, u, pid, b, AllWritesOk, BidIds)
                n == Len(store.contracts)
            IN /\ r.code = 200
               /\ Len(r.store.bids) = Len(store.bids)
               /\ r.store.bids[b] = update(store.bids[b], [status |-> "accepted"])
               /\ \A i \in PendingSiblings(pid, b) : r.store.bids[i].status = "rejected"
               /\ r.store.projects[pid].status = "in_progress"
               /\ r.store.projects[pid].freelancer_user_id
                      = store.bids[b].freelancer_user_id
               /\ Len(r.store.contracts) = n + 1
               /\ SubSeq(r.store.contracts, 1, n) = store.contracts
               /\ r.store.contracts[n + 1] =
                      [project_id |-> pid,
                       client_id |-> store.projects[pid].client_user_id,
                       freelancer_id |-> store.bids[b].freelancer_user_id,
                       agreed_amount |-> store.bids[b].amount,
                       status |-> "active"]

\* A bid was accepted with a sibling rejected: the project is in_progress with
\* the bid's freelancer and the engagement has its active contract.
C2_Accepted ==
    \E b, i \in 1 .. Len(store.bids), c \in 1 .. Len(store.contracts) :
        LET pid == store.bids[b].project_id
        IN /\ pid \in DOMAIN store.projects
           /\ store.bids[b].status = "accepted"
           /\ store.bids[i].status = "rejected"
           /\ store.bids[i].project_id = pid
           /\ store.projects[pid].status = "in_progress"
           /\ store.projects[pid].freelancer_user_id = store.bids[b].freelancer_user_id
           /\ store.contracts[c] =
                  [project_id |-> pid,
                   client_id |-> store.projects[pid].client_user_id,
                   freelancer_id |-> store.bids[b].freelancer_user_id,
                   agreed_amount |-> store.bids[b].amount,
                   status |-> "active"]

\* C3: accept_bid issues no store write unless the caller is the project's
\* client, the bid is the project's, the project is open and the bid pending;
\* a second accept_bid on an accepted bid answers 400 and leaves bids,
\* projects and contracts as they were.
C3_AcceptBidGuards ==
    \A u \in Users, pid \in ProjectIds, b \in BidIds, f \in AcceptFlags :
        \A rejOk \in RejectFlags(f) :
            LET r == accept_bid(store, u, pid, b, f, rejOk)
            IN /\ ~AcceptPre(u, pid, b) => r.writes = <<>> /\ r.store = store
               /\ (/\ pid \in DOMAIN store.projects
                   /\ u = store.projects[pid].client_user_id
                   /\ b \in 1 .. Len(store.bids)
                   /\ store.bids[b].project_id = pid
                   /\ store.bids[b].status = "accepted")
                  => r.code = 400 /\ r.store = store

\* An accepted bid of a live project that is open (again), next to a bid of a
\* project that is gone: a second accept_bid would pass every other check.
C3_AcceptedBidOnOpenProject ==
    \E b, i \in 1 .. Len(store.bids) :
        /\ store.bids[b].status = "accepted"
        /\ store.bids[b].project_id \in DOMAIN store.projects
        /\ store.projects[store.bids[b].project_id].status = "open"
        /\ store.bids[i].project_id \notin DOMAIN store.projects

ProjectPayments(pid) ==
    {t \in 1 .. Len(store.transactions) :
        /\ store.transactions[t].project_id = pid
        /\ store.transactions[t].transaction_type = "project_payment"
        /\ store.transactions[t].status = "completed"}

HighestVersion(subs, pid) ==
    IF \A i \in 1 .. Len(subs) : subs[i].project_id # pid THEN 0
    ELSE Max({subs[i].version : i \in {j \in 1 .. Len(subs) : subs[j].project_id = pid}})

C7_ProjectFailureRevertsBid ==
    \A u \in Users, pid \in ProjectIds, b \in BidIds, revert \in BOOLEAN :
        AcceptPre(u, pid, b) =>
            LET r == accept_bid(store, u, pid, b,
                                [bid |-> TRUE, proj |-> FALSE, revert |-> revert,
                                 contract |-> TRUE], BidIds)
            IN /\ r.code >= 400
               /\ r.store.bids[b].status = "pending"
               /\ r.store.projects = store.projects
               /\ \A i \in PendingSiblings(pid, b) : r.store.bids[i].status = "pending"
               /\ r.store.contracts = store.contracts

\* C8: in accept_bid, when the contract save fails after the bid, project and
\* sibling writes succeeded, the call answers 500 and nothing is rolled back:
\* the bid is accepted, the project in_progress with the freelancer, the
\* siblings rejected, and the engagement has no contract.
C8_ContractFailureKeepsWrites ==
    \A u \in Users, pid \in ProjectIds, b \in BidIds :
        AcceptPre(u, pid, b) =>
            LET r == accept_bid(store, u, pid, b,
                                [bid |-> TRUE, proj |-> TRUE, revert |-> TRUE,
                                 contract |-> FALSE], BidIds)
            IN /\ r.code = 500
               /\ r.store.bids[b].status = "accepted"
               /\ r.store.projects[pid].status = "in_progress"
               /\ r.store.projects[pid].freelancer_user_id
                      = store.bids[b].freelancer_user_id
               /\ \A i \in PendingSiblings(pid, b) : r.store.bids[i].status = "rejected"
               /\ r.store.contracts = store.contracts
               /\ \A c \in 1 .. Len(r.store.contracts) :
                      ~ /\ r.store.contracts[c].project_id = pid
                        /\ r.store.contracts[c].freelancer_id
                               = store.bids[b].freelancer_user_id

\* A project is in_progress with the freelancer of its accepted bid, a sibling
\* bid is rejected, and no contract names the project.
C8_EngagementWithoutContract ==
    \E b, i \in 1 .. Len(store.bids) :
        LET pid == store.bids[b].project_id
        IN /\ pid \in DOMAIN store.projects
           /\ store.bids[b].status = "accepted"
           /\ store.bids[i].status = "rejected"
           /\ store.bids[i].project_id = pid
           /\ store.projects[pid].status = "in_progress"
           /\ store.projects[pid].freelancer_user_id = store.bids[b].freelancer_user_id
           /\ \A c \in 1 .. Len(store.contracts) : store.contracts[c].project_id # pid

\* The request submit_work(pid) by u meets the three preconditions: u is the
\* assigned freelancer, the project is in_progress, and a contract of
\* (project, freelancer) is active.
SubmitPre(u, pid) ==
    /\ pid \in DOMAIN store.projects
    /\ store.projects[pid].freelancer_user_id = u
    /\ store.projects[pid].status = "in_progress"
    /\ \E c \in 1 .. Len(store.contracts) :
           /\ store.contracts[c].project_id = pid
           /\ store.contracts[c].freelancer_id = u
           /\ store.contracts[c].status = "active"

\* C9: submit_work saves a submission and moves the project to
\* awaiting_review only when the caller is the assigned freelancer, the project
\* is in_progress and an active contract of (project, freelancer) exists;
\* otherwise it answers 403 or 400, saves nothing and leaves the status.
C9_SubmitWorkGuards ==
    \A u \in Users, pid \in ProjectIds, f \in SubmitFlags :
        LET r == submit_work_for_project(store, u, pid, f)
        IN /\ r.store # store => SubmitPre(u, pid)
           /\ (pid \in DOMAIN store.projects /\ ~SubmitPre(u, pid))
              => r.code \in {403, 400} /\ r.writes = <<>> /\ r.store = store

\* A project is in_progress with a freelancer assigned, a contract of the two
\* exists, and none is active.
C9_NoActiveContract ==
    \E pid \in DOMAIN store.projects, c \in 1 .. Len(store.contracts) :
        /\ store.projects[pid].status = "in_progress"
        /\ store.projects[pid].freelancer_user_id # None
        /\ Len(store.submissions) < MaxSubmissions
        /\ store.contracts[c].project_id = pid
        /\ store.contracts[c].freelancer_id = store.projects[pid].freelancer_user_id
        /\ \A d \in 1 .. Len(store.contracts) :
               store.contracts[d].project_id = pid => store.contracts[d].status # "active"

\* C10: in submit_work, when the submission save succeeds and the project
\* status write fails, the call answers 500, the saved submission stays in the
\* store and the project stays in_progress.
C10_StatusFailureKeepsSubmission ==
    \A u \in Users, pid \in ProjectIds :
        SubmitPre(u, pid) =>
            LET r == submit_work_for_project(store, u, pid, [sub |-> TRUE, proj |-> FALSE])
                n == Len(store.submissions)
            IN /\ r.code = 500
               /\ Len(r.store.submissions) = n + 1
               /\ SubSeq(r.store.submissions, 1, n) = store.submissions
               /\ r.store.submissions[n + 1].project_id = pid
               /\ r.store.submissions[n + 1].freelancer_id = u
               /\ r.store.projects = store.projects
               /\ r.store.projects[pid].status = "in_progress"

\* A project is still in_progress although its assigned freelancer's
\* submission is stored, the contract being active.
C10_SubmissionOnProjectInProgress ==
    \E pid \in DOMAIN store.projects, s \in 1 .. Len(store.submissions) :
        /\ SubmitPre(store.projects[pid].freelancer_user_id, pid)
        /\ store.submissions[s].project_id = pid
        /\ store.submissions[s].freelancer_id = store.projects[pid].freelancer_user_id

\* The request approve_submission(pid, s) by u passes every check of the
\* handler: u is the project's client, the submission is the project's, the
\* project is awaiting_review.
ApprovePre(u, pid, s) ==
    /\ pid \in DOMAIN store.projects
    /\ u = store.projects[pid].client_user_id
    /\ s \in 1 .. Len(store.submissions)
    /\ store.submissions[s].project_id = pid
    /\ store.projects[pid].status = "awaiting_review"

\* The active contracts of project pid for its assigned freelancer.
ActiveContractsOf(pid) ==
    {c \in 1 .. Len(store.contracts) :
        /\ store.contracts[c].project_id = pid
        /\ store.projects[pid].freelancer_user_id # None
        /\ store.contracts[c].freelancer_id = store.projects[pid].freelancer_user_id
        /\ store.contracts[c].status = "active"}

\* C11: approve_submission by the project's client on a project awaiting
\* review and a submission of it, every write succeeding: the project is
\* completed, the active contract of the project for its assigned freelancer
\* is completed, no other contract is touched, and the project write comes
\* before the contract write.
C11_ApproveCompletes ==
    \A u \in Users, pid \in ProjectIds, s \in SubmissionIds,
       first \in {0} \cup ContractIds :
        (ApprovePre(u, pid, s) /\ FirstActive(store, pid, first)) =>
            LET r == approve_submission(store, u, pid, s,
                                        [proj |-> TRUE, contract |-> TRUE], first)
            IN /\ r.code = 200
               /\ r.store.projects[pid] =
                      update(store.projects[pid], [status |-> "completed"])
               /\ Len(r.store.contracts) = Len(store.contracts)
               /\ \A c \in 1 .. Len(store.contracts) :
                      r.store.contracts[c] =
                          IF c \in ActiveContractsOf(pid)
                          THEN update(store.contracts[c], [status |-> "completed"])
                          ELSE store.contracts[c]
               /\ r.writes[1] = W("projects", pid, TRUE)
               /\ ActiveContractsOf(pid) # {} =>
                      /\ Len(r.writes) = 2
                      /\ r.writes[2].coll = "contracts"
                      /\ r.writes[2].id \in ActiveContractsOf(pid)

\* A project with a submission is completed and the contract of its assigned
\* freelancer is completed.
C11_Approved ==
    \E pid \in DOMAIN store.projects, s \in 1 .. Len(store.submissions),
       c \in 1 .. Len(store.contracts) :
        /\ store.projects[pid].status = "completed"
        /\ store.submissions[s].project_id = pid
        /\ store.contracts[c].project_id = pid
        /\ store.contracts[c].freelancer_id = store.projects[pid].freelancer_user_id
        /\ store.contracts[c].status = "completed"

\* C13: a project's status changes only one step at a time along
\* open -> in_progress -> awaiting_review -> completed: no request moves a
\* project to a status other than the successor of its current one.
\* (update_project writes whatever status the patch carries.)
C13_StatusMovesOneStep ==
    [][\A p \in DOMAIN store.projects \cap DOMAIN store'.projects :
          store'.projects[p].status # store.projects[p].status
          => Rank(store'.projects[p].status) = Rank(store.projects[p].status) + 1]_vars

\* C14: a project has a freelancer assigned if and only if its status is
\* in_progress, awaiting_review or completed.
\* (create_project stores the request's status with no freelancer, and
\* update_project writes status and freelancer_user_id independently.)
C14_FreelancerIffStarted ==
    \A p \in DOMAIN store.projects :
        store.projects[p].freelancer_user_id # None
        <=> store.projects[p].status \in {"in_progress", "awaiting_review", "completed"}

\* C16: update_bid changes a bid only when the caller is the bid's freelancer,
\* the bid's project is open and the bid is pending, and the only status it
\* writes is withdrawn; a patch with status accepted or rejected, alone or
\* with other allowed fields, answers 400 and leaves the bid unchanged.
C16_UpdateBidGuards ==
    \A u \in Users, b \in BidIds, d \in BidPatches, ok \in BOOLEAN :
        LET r == update_bid(store, u, b, d, ok)
        IN /\ r.store # store =>
                  /\ b \in 1 .. Len(store.bids)
                  /\ u = store.bids[b].freelancer_user_id
                  /\ store.bids[b].project_id \in DOMAIN store.projects
                  /\ store.projects[store.bids[b].project_id].status = "open"
                  /\ store.bids[b].status = "pending"
                  /\ r.store.bids[b].status \in {"pending", "withdrawn"}
                  /\ r.store = [store EXCEPT !.bids[b] = r.store.bids[b]]
           /\ (/\ b \in 1 .. Len(store.bids)
               /\ u = store.bids[b].freelancer_user_id
               /\ store.bids[b].project_id \in DOMAIN store.projects
               /\ "status" \in DOMAIN d
               /\ d["status"] \in {"accepted", "rejected"})
              => r.code = 400 /\ r.writes = <<>> /\ r.store = store

\* A freelancer has withdrawn a bid, and another bid is pending on an open
\* project: its freelancer's patch is only stopped by the handler.
C16_WithdrawnAndPending ==
    \E b, i \in 1 .. Len(store.bids) :
        /\ store.bids[b].status = "withdrawn"
        /\ store.bids[i].status = "pending"
        /\ store.bids[i].project_id \in DOMAIN store.projects
        /\ store.projects[store.bids[i].project_id].status = "open"

\* The contracts of the engagement of bid b: same project, same freelancer.
ContractsOfBid(b) ==
    {c \in 1 .. Len(store.contracts) :
        /\ store.contracts[c].project_id = store.bids[b].project_id
        /\ store.contracts[c].freelancer_id = store.bids[b].freelancer_user_id}

\* C17: every accepted bid has exactly one contract of its project and
\* freelancer, and every contract belongs to such an accepted bid.
\* (A failed contract save leaves the bid accepted, see C8; so does a failed
\* compensating write, see C7.)
C17_OneContractPerAcceptedBid ==
    /\ \A b \in 1 .. Len(store.bids) :
           store.bids[b].status = "accepted" => Cardinality(ContractsOfBid(b)) = 1
    /\ \A c \in 1 .. Len(store.contracts) :
           \E b \in 1 .. Len(store.bids) :
               store.bids[b].status = "accepted" /\ c \in ContractsOfBid(b)

AcceptedBidsOf(pid) ==
    {b \in 1 .. Len(store.bids) :
        /\ store.bids[b].project_id = pid
        /\ store.bids[b].status = "accepted"
        /\ store.bids[b].freelancer_user_id = store.projects[pid].freelancer_user_id}

\* The request checkout(pid) by u passes the checks before the amount is
\* determined: u is the client, the project is completed, has a freelancer
\* and no completed project_payment.
CheckoutPre(u, pid) ==
    /\ pid \in DOMAIN store.projects
    /\ u = store.projects[pid].client_user_id
    /\ store.projects[pid].status = "completed"
    /\ store.projects[pid].freelancer_user_id # None
    /\ ProjectPayments(pid) = {}

\* C12: the transaction created by checkout carries the project's budget when
\* the budget is set and positive; otherwise the amount of the project's
\* accepted bid by the assigned freelancer, when that is positive; otherwise
\* checkout answers 400 and saves no transaction.
C12_AmountResolution ==
    \A u \in Users, pid \in ProjectIds, first \in {0} \cup BidIds :
        (CheckoutPre(u, pid) /\ FirstAccepted(store, pid, first)) =>
            LET r == checkout_project_payment(store, u, pid, first, TRUE)
                n == Len(store.transactions)
                budget == store.projects[pid].budget
                bidAmounts == {store.bids[b].amount : b \in AcceptedBidsOf(pid)}
            IN IF \E x \in budget : x > 0
               THEN /\ r.code = 201
                    /\ Len(r.store.transactions) = n + 1
                    /\ {r.store.transactions[n + 1].amount} = budget
               ELSE IF \E a \in bidAmounts : a > 0
               THEN /\ r.code = 201
                    /\ Len(r.store.transactions) = n + 1
                    /\ {r.store.transactions[n + 1].amount} = bidAmounts
               ELSE /\ r.code = 400
                    /\ r.writes = <<>>
                    /\ r.store = store

\* A completed project whose budget is set and not positive has been paid
\* the amount of its accepted bid.
C12_PaidBidAmount ==
    \E pid \in DOMAIN store.projects, t \in 1 .. Len(store.transactions),
       b \in 1 .. Len(store.bids) :
        /\ store.projects[pid].budget = {0}
        /\ store.projects[pid].status = "completed"
        /\ b \in AcceptedBidsOf(pid)
        /\ store.transactions[t].project_id = pid
        /\ store.transactions[t].transaction_type = "project_payment"
        /\ store.transactions[t].amount = store.bids[b].amount

\* C15: a bid's status changes only from pending: once a bid is accepted,
\* rejected or withdrawn, no request and no step of a request changes its
\* status, under any interleaving and any store-write failure.
\* (accept_bid writes accepted to the bid it read as pending, whatever the
\* bid has become since; its compensating write puts an accepted bid back to
\* pending; its rejection loop writes rejected to the bids its query found
\* pending.)
C15_BidStatusLeavesPendingOnce ==
    [][\A b \in 1 .. Len(store.bids) :
          store.bids[b].status # "pending"
          => store'.bids[b].status = store.bids[b].status]_vars

\* Every contract carries the amount of the accepted bid of its project and
\* freelancer.
AgreedAmountIsBidAmount ==
    \A c \in 1 .. Len(store.contracts), b \in 1 .. Len(store.bids) :
        (c \in ContractsOfBid(b) /\ store.bids[b].status = "accepted")
        => store.contracts[c].agreed_amount = store.bids[b].amount

\* C18: a contract's agreed_amount is the amount of the accepted bid it was
\* created from and never changes, also when update_bid requests on that bid
\* interleave with the accept_bid that creates the contract.
\* (The contract is built from the bid as accept_bid read it; an update_bid
\* between that read and the write of accepted changes the stored amount.)
C18_AgreedAmountIsSnapshot ==
    [][/\ AgreedAmountIsBidAmount'
       /\ \A c \in 1 .. Len(store.contracts) :
              store'.contracts[c].agreed_amount = store.contracts[c].agreed_amount]_vars

\* The active contracts of project pid.
ActiveContractsOfProject(pid) ==
    {c \in 1 .. Len(store.contracts) :
        store.contracts[c].project_id = pid /\ store.contracts[c].status = "active"}

\* Both accept_bid requests have returned success, for two different bids of
\* one project.
BothAccepted ==
    /\ \A p \in AcceptProcs : procs[p].pc = "done" /\ procs[p].code = 200
    /\ procs[1].pid = procs[2].pid
    /\ procs[1].bid_id # procs[2].bid_id

\* C20: two accept_bid requests for two different pending bids of one open
\* project, their reads and writes interleaved, can both return success; the
\* project then has two active contracts, one per bid.
C20_BothAcceptsLeaveTwoContracts ==
    BothAccepted =>
        /\ Cardinality(ActiveContractsOfProject(procs[1].pid)) = 2
        /\ \A p \in AcceptProcs :
               \E c \in ActiveContractsOfProject(procs[1].pid) :
                   /\ c \in ContractsOfBid(procs[p].bid_id)
                   /\ store.contracts[c].client_id
                          = store.projects[procs[1].pid].client_user_id

\* Both requests have returned success and both bids are accepted, with two
\* active contracts of the project.
C20_TwoAcceptedBids ==
    /\ BothAccepted
    /\ \A p \in AcceptProcs : store.bids[procs[p].bid_id].status = "accepted"
    /\ Cardinality(ActiveContractsOfProject(procs[1].pid)) = 2
    /\ store.projects[procs[1].pid].status = "in_progress"

\* What list_bids, accept_bid, checkout, update_project and delete_project
\* answer to caller u on project pid, over every other input of the request.
OwnerOnlyAnswers(u, pid) ==
    {list_bids_for_project(store, u, pid)}
    \cup {accept_bid(store, u, pid, b, f, rejOk) :
              b \in BidIds, f \in AcceptFlags, rejOk \in SUBSET BidIds}
    \cup {checkout_project_payment(store, u, pid, first, ok) :
              first \in {b \in {0} \cup BidIds : FirstAccepted(store, pid, b)},
              ok \in BOOLEAN}
    \cup {update_project(store, u, pid, body, ok) :
              body \in ProjectPatches, ok \in BOOLEAN}
    \cup {delete_project(store, u, pid, ok) : ok \in BOOLEAN}

\* What approve_submission answers to caller u on project pid and submission
\* id s, over the write outcomes and the contract the loop stops at.
ApproveAnswers(u, pid, s) ==
    {approve_submission(store, u, pid, s, f, first) :
        f \in ApproveFlags,
        first \in {c \in {0} \cup ContractIds : FirstActive(store, pid, c)}}

\* The request is rejected with the given status and nothing is written.
Rejected(r, code) == r.code = code /\ r.writes = <<>> /\ r.store = store

SubmitBidPre(u, pid) ==
    /\ role(u) = "freelancer"
    /\ pid \in DOMAIN store.projects
    /\ store.projects[pid].status = "open"

\* C22: submit_bid creates a bid only if the caller is a freelancer and the
\* project exists and is open; the bid created is pending, with the path's
\* project_id and the token's freelancer, whatever ids the body carries;
\* otherwise the call answers 403 (not a freelancer), 404 (no such project)
\* or 400 (project not open) and creates no bid.
C22_SubmitBidGuards ==
    \A u \in Users, pid \in ProjectIds, bid_in \in BidBodies(Amounts), ok \in BOOLEAN :
        LET r == submit_bid_for_project(store, u, pid, bid_in, ok)
        IN /\ r.store # store =>
                  /\ SubmitBidPre(u, pid)
                  /\ r.code = 201
                  /\ r.store = [store EXCEPT !.bids =
                         Append(@, [project_id |-> pid, freelancer_user_id |-> u,
                                    amount |-> bid_in.amount, status |-> "pending"])]
           /\ ~SubmitBidPre(u, pid) =>
                  Rejected(r, IF role(u) # "freelancer" THEN 403
                              ELSE IF pid \notin DOMAIN store.projects THEN 404
                              ELSE 400)
           /\ (/\ SubmitBidPre(u, pid)
               /\ ok
               /\ \A i \in 1 .. Len(store.bids) :
                      ~ /\ store.bids[i].project_id = pid
                        /\ store.bids[i].freelancer_user_id = u)
              => r.code = 201 /\ r.store # store

\* A freelancer's pending bid is stored on the open project of a client, a
\* bid of an earlier project is in the store, and there is room for one
\* more: bodies naming the other project or another user are possible.
C22_BidOnSecondProject ==
    \E i, j \in 1 .. Len(store.bids) :
        /\ store.bids[i].project_id \in DOMAIN store.projects
        /\ store.projects[store.bids[i].project_id].status = "open"
        /\ store.bids[i].status = "pending"
        /\ store.bids[j].project_id # store.bids[i].project_id

\* The bids of freelancer u on project pid.
BidsOf(u, pid) ==
    {i \in 1 .. Len(store.bids) :
        store.bids[i].project_id = pid /\ store.bids[i].freelancer_user_id = u}

\* C23: only a non-terminal bid blocks submit_bid as a duplicate: a
\* freelancer whose earlier bids on a still-open project are all withdrawn
\* or rejected can submit a new bid, which is created with status pending.
\* (The handler's loop compares the freelancer of every bid of the project,
\* whatever the bid's status, and answers 400 on the first match.)
C23_TerminalBidAllowsNewBid ==
    \A u \in Users, pid \in ProjectIds, bid_in \in BidBodies(Amounts) :
        (/\ SubmitBidPre(u, pid)
         /\ BidsOf(u, pid) # {}
         /\ \A i \in BidsOf(u, pid) : store.bids[i].status \in {"withdrawn", "rejected"})
        => LET r == submit_bid_for_project(store, u, pid, bid_in, TRUE)
           IN /\ r.code = 201
              /\ Len(r.store.bids) = Len(store.bids) + 1
              /\ r.store.bids[Len(store.bids) + 1].status = "pending"

\* C24: withdraw by a freelancer with amount > 0 saves exactly one
\* transaction: payer null, payee the caller, the requested amount, type
\* withdrawal, status pending; for any other role (403) or amount <= 0 (400)
\* nothing is saved; the outcome is the same whatever transactions the store
\* holds: no balance and no earlier transaction is consulted.
C24_WithdrawSavesOnePending ==
    \A u \in Users, amt \in WithdrawAmounts :
        LET r == withdraw_funds(store, u, amt, TRUE)
            n == Len(store.transactions)
        IN IF role(u) # "freelancer" THEN Rejected(r, 403)
           ELSE IF amt <= 0 THEN Rejected(r, 400)
           ELSE /\ r.code = 201
                /\ r.writes = <<W("transactions", n + 1, TRUE)>>
                /\ r.store = [store EXCEPT !.transactions =
                       Append(@, [project_id |-> NoProject, payer_user_id |-> None,
                                  payee_user_id |-> u, amount |-> amt,
                                  transaction_type |-> "withdrawal",
                                  status |-> "pending"])]

\* A freelancer who was never paid has a withdrawal stored, next to the
\* payment of another freelancer's project.
C24_WithdrawnWithoutEarnings ==
    \E t, p \in 1 .. Len(store.transactions) :
        /\ store.transactions[t].transaction_type = "withdrawal"
        /\ store.transactions[t].amount > 0
        /\ store.transactions[p].transaction_type = "project_payment"
        /\ store.transactions[p].payee_user_id # store.transactions[t].payee_user_id

\* Reviewer and reviewee of review_in are the two parties of project pr:
\* the client reviews the assigned freelancer, or the freelancer the client.
PartiesOf(pr, review_in) ==
    \/ /\ review_in.reviewer_user_id = pr.client_user_id
       /\ review_in.reviewee_user_id = pr.freelancer_user_id
    \/ /\ pr.freelancer_user_id # None
       /\ review_in.reviewer_user_id = pr.freelancer_user_id
       /\ review_in.reviewee_user_id = pr.client_user_id

\* C25: a review is stored only by a request whose caller is its reviewer,
\* for a project that is completed when the request is served, the reviewer
\* being the project's client and the reviewee its assigned freelancer, or
\* the reverse; a reviewer's submit_review for a project that is not
\* completed answers 400 and stores no review (a request whose reviewer id
\* is not the caller's answers 403 before the project is looked at).
C25_ReviewsOfCompletedProjects ==
    \A u \in Users, review_in \in ReviewBodies, f \in ReviewFlags :
        LET r == submit_review(store, u, review_in, f)
            pid == review_in.project_id
        IN /\ r.store # store =>
                  /\ review_in.reviewer_user_id = u
                  /\ pid \in DOMAIN store.projects
                  /\ store.projects[pid].status = "completed"
                  /\ PartiesOf(store.projects[pid], review_in)
                  /\ r.store.reviews = Append(store.reviews, review_in)
           /\ (pid \in DOMAIN store.projects /\ store.projects[pid].status # "completed")
              => Rejected(r, IF review_in.reviewer_user_id = u THEN 400 ELSE 403)

\* A review of a project is stored, and the project, with its parties, is
\* no longer completed: a further review by the other party would pass
\* every check but the one on the status.
C25_ReviewedProjectReopened ==
    \E i \in 1 .. Len(store.reviews) :
        LET pid == store.reviews[i].project_id
        IN /\ Len(store.reviews) < MaxReviews
           /\ pid \in DOMAIN store.projects
           /\ store.projects[pid].status = "in_progress"
           /\ PartiesOf(store.projects[pid], store.reviews[i])

ProtectedKeys == {"client_user_id", "project_id", "creation_date"}

\* C27: update_project never changes a project's client_user_id, project_id
\* or creation_date: what it writes is the patch without these keys, and a
\* patch of such keys only answers 400 with no write.
C27_ProtectedKeysKept ==
    \A u \in Users, pid \in DOMAIN store.projects, body \in ProjectPatches,
       ok \in BOOLEAN :
        LET r == update_project(store, u, pid, body, ok)
        IN /\ pid \in DOMAIN r.store.projects
           /\ \A k \in ProtectedKeys : r.store.projects[pid][k] = store.projects[pid][k]
           /\ r.code = 200 =>
                  r.store = [store EXCEPT !.projects[pid] =
                      update(@, [k \in DOMAIN body \ ProtectedKeys |-> body[k]])]
           /\ (u = store.projects[pid].client_user_id /\ DOMAIN body \subseteq ProtectedKeys)
              => Rejected(r, 400)

\* update_project has assigned a freelancer to a project nobody has bid on;
\* the project has the client, id and creation date it was created with.
C27_PatchedProject ==
    \E pid \in DOMAIN store.projects :
        /\ store.projects[pid].freelancer_user_id \in Freelancers
        /\ store.bids = <<>>
        /\ store.projects[pid].client_user_id \in Clients
        /\ store.projects[pid].project_id = pid
        /\ store.projects[pid].creation_date = ImportTime

\* The collections whose documents are kept in sequences.
Collections == {"bids", "contracts", "submissions", "transactions", "reviews", "chats"}

\* The store S without the document of project pid.
WithoutProject(S, pid) ==
    [S EXCEPT !.projects = [p \in DOMAIN @ \ {pid} |-> @[p]]]

\* C28: delete_project by the owning client succeeds whatever the project's
\* status and removes the project document alone: bids, contracts,
\* submissions, transactions and reviews, those of the project included, stay
\* as they are; and in no step of any request does a document disappear
\* otherwise: a step that removes a project is that deletion, and no step
\* removes a document of another collection.
C28_OnlyProjectsAreDeleted ==
    [][/\ \A pid \in DOMAIN store.projects :
              LET r == delete_project(store, store.projects[pid].client_user_id, pid, TRUE)
              IN /\ r.code = 204
                 /\ r.writes = <<W("projects", pid, TRUE)>>
                 /\ r.store = WithoutProject(store, pid)
       /\ \A c \in Collections : Len(store'[c]) >= Len(store[c])
       /\ \A pid \in DOMAIN store.projects \ DOMAIN store'.projects :
              store' = WithoutProject(store, pid)]_vars

\* A project has been deleted; a bid, a contract, a submission, a payment
\* and a review of it are in the store.
C28_DeletedProjectLeftovers ==
    \E pid \in (1 .. store.nProjects) \ DOMAIN store.projects :
        \A c \in Collections \ {"chats"} :
            \E i \in 1 .. Len(store[c]) : store[c][i].project_id = pid

\* The unordered participant pair and the project context of a chat.
ChatKey(chat) ==
    <<{chat.participant1_id, chat.participant2_id}, chat.project_context_id>>

\* No two chats have the same participant pair and project context.
ChatsUnique ==
    \A i, j \in 1 .. Len(store.chats) :
        i # j => ChatKey(store.chats[i]) # ChatKey(store.chats[j])

\* The requests of start_new_chat between two users for a pair and context
\* that has a chat, with each chat the handler may take from its queries.
ExistingChatRequests ==
    {q \in [u : Users, participant2_id : Users, project_context_id : Contexts,
            first : {0} \cup ChatIds, ok : BOOLEAN] :
        /\ q.u # q.participant2_id
        /\ FirstChat(store, q.u, q.participant2_id, q.project_context_id, q.first)
        /\ \E i \in 1 .. Len(store.chats) :
               ChatKey(store.chats[i]) =
                   <<{q.u, q.participant2_id}, q.project_context_id>>}

\* A request for a pair and context that has a chat saves nothing.
ExistingChatSavesNothing ==
    \A q \in ExistingChatRequests :
        LET r == start_new_chat(store, q.u, q.participant2_id, q.project_context_id,
                                q.first, q.ok)
        IN r.code = 201 /\ r.writes = <<>> /\ r.store = store /\ r.chat # 0

\* C29: after any sequence of start_new_chat requests executed one at a time,
\* at most one chat exists per unordered participant pair and project
\* context: a request for a pair and context that has a chat, in either
\* participant order, saves nothing and returns that chat, the chat of the
\* pair and context requested.
C29_OneChatPerPairAndContext ==
    /\ ChatsUnique
    /\ ExistingChatSavesNothing
    /\ \A q \in ExistingChatRequests :
           LET r == start_new_chat(store, q.u, q.participant2_id,
                                   q.project_context_id, q.first, q.ok)
           IN r.chat # 0 /\ ChatKey(store.chats[r.chat]) =
                               <<{q.u, q.participant2_id}, q.project_context_id>>

\* The writes ws are, in this order: the bid bid_id, the project pid, one
\* write for each pending sibling, the save of a new contract.
InAcceptOrder(ws, pid, bid_id) ==
    LET n == Len(ws)
    IN /\ n = Cardinality(PendingSiblings(pid, bid_id)) + 3
       /\ ws[1].coll = "bids" /\ ws[1].id = bid_id
       /\ ws[2].coll = "projects" /\ ws[2].id = pid
       /\ \A k \in 3 .. n - 1 : ws[k].coll = "bids"
       /\ {ws[k].id : k \in 3 .. n - 1} = PendingSiblings(pid, bid_id)
       /\ ws[n].coll = "contracts" /\ ws[n].id = Len(store.contracts) + 1

\* C30: accept_bid issues its store writes in a fixed order: the bid to
\* accepted, then the project to in_progress with the freelancer, then each
\* other pending bid to rejected, then the contract save; no sibling bid is
\* rejected and no contract is saved before the project write has succeeded
\* (after a failed bid write nothing else is written, after a failed project
\* write only the revert of the bid).
C30_AcceptBidWriteOrder ==
    \A u \in Users, pid \in ProjectIds, bid_id \in BidIds, f \in AcceptFlags :
        \A rejOk \in RejectFlags(f) :
            LET r == accept_bid(store, u, pid, bid_id, f, rejOk)
                ws == r.writes
            IN /\ accept_bid_checks(store, u, pid, bid_id) = 0 <=> ws # <<>>
               /\ ws # <<>> /\ ~f.bid => ws = <<W("bids", bid_id, FALSE)>>
               /\ ws # <<>> /\ f.bid /\ ~f.proj =>
                      /\ Len(ws) = 3
                      /\ ws[1] = W("bids", bid_id, TRUE)
                      /\ ws[2] = W("projects", pid, FALSE)
                      /\ ws[3].coll = "bids" /\ ws[3].id = bid_id
               /\ ws # <<>> /\ f.bid /\ f.proj =>
                      /\ InAcceptOrder(ws, pid, bid_id)
                      /\ ws[1].ok /\ ws[2].ok
                      /\ r.store.projects[pid].status = "in_progress"
                      /\ r.store.projects[pid].freelancer_user_id =
                             store.bids[bid_id].freelancer_user_id
               /\ \A k \in 1 .. Len(ws) :
                      ws[k].coll = "contracts" \/ (ws[k].coll = "bids" /\ ws[k].id # bid_id)
                          => k > 2 /\ ws[2] = W("projects", pid, TRUE)
               /\ (\/ Len(r.store.contracts) > Len(store.contracts)
                   \/ \E i \in PendingSiblings(pid, bid_id) :
                          r.store.bids[i].status = "rejected")
                      => r.store.projects[pid].status = "in_progress"

\* A bid was accepted while a sibling was pending: the project is in
\* progress with an accepted and a rejected bid and has a contract.
C30_AcceptedWithRejectedSibling ==
    \E pid \in DOMAIN store.projects, i, j \in 1 .. Len(store.bids) :
        /\ store.projects[pid].status = "in_progress"
        /\ store.bids[i].project_id = pid /\ store.bids[i].status = "accepted"
        /\ store.bids[j].project_id = pid /\ store.bids[j].status = "rejected"
        /\ store.projects[pid].freelancer_user_id = store.bids[i].freelancer_user_id
        /\ \E c \in 1 .. Len(store.contracts) : store.contracts[c].project_id = pid

\* C31: after a successful accept_bid on project P, no bid of P has status
\* pending while P is not open, a bid created by a submit_bid request whose
\* store operations interleave with the accept_bid included.
C31_NoPendingBidAfterAccept ==
    \A pid \in DOMAIN store.projects :
        /\ store.projects[pid].status # "open"
        /\ \E c \in 1 .. Len(store.contracts) : store.contracts[c].project_id = pid
        => \A i \in 1 .. Len(store.bids) :
               store.bids[i].project_id = pid => store.bids[i].status # "pending"

\* The project has an active contract with its assigned freelancer.
HasActiveContract(pid) ==
    \E c \in 1 .. Len(store.contracts) :
        /\ store.contracts[c].project_id = pid
        /\ store.contracts[c].status = "active"
        /\ store.projects[pid].freelancer_user_id # None
        /\ store.contracts[c].freelancer_id = store.projects[pid].freelancer_user_id

\* C32: in approve_submission, if the project write to completed fails the
\* call returns 500 and nothing is changed; if it succeeds and the contract
\* write fails, or no active contract for the assigned freelancer is found,
\* the call still returns success with the project completed and the
\* contracts left with their previous status.
C32_ApproveIsBestEffortOnContract ==
    \A u \in Users, pid \in ProjectIds, sid \in SubmissionIds, f \in ApproveFlags,
       first \in {0} \cup ContractIds :
        ApprovePre(u, pid, sid) /\ FirstActive(store, pid, first) =>
            LET r == approve_submission(store, u, pid, sid, f, first)
            IN /\ ~f.proj => r.code = 500 /\ r.store = store
               /\ f.proj /\ (~f.contract \/ ~HasActiveContract(pid)) =>
                      /\ r.code = 200
                      /\ r.store = [store EXCEPT !.projects[pid].status = "completed"]

\* Left behind by such an approval: a completed project with a submission
\* whose contract with the assigned freelancer is still active.
C32_CompletedWithActiveContract ==
    \E pid \in DOMAIN store.projects :
        /\ store.projects[pid].status = "completed"
        /\ \E s \in 1 .. Len(store.submissions) : store.submissions[s].project_id = pid
        /\ HasActiveContract(pid)

\* C33: with requests executed one at a time and no store failure, at any
\* time at most one bid per project has status accepted, and when one exists
\* its freelancer is the project's freelancer_user_id.
C33_OneAcceptedBidOfTheFreelancer ==
    \A pid \in DOMAIN store.projects :
        \A i, j \in {b \in 1 .. Len(store.bids) :
                        store.bids[b].project_id = pid /\ store.bids[b].status = "accepted"} :
            /\ i = j
            /\ store.bids[i].freelancer_user_id = store.projects[pid].freelancer_user_id

\* C34: whenever a project is in_progress, a contract with status active
\* exists for (project, assigned freelancer), so that submit_work by the
\* assigned freelancer is never rejected by the active-contract check.
C34_InProgressHasActiveContract ==
    \A pid \in DOMAIN store.projects :
        store.projects[pid].status = "in_progress" =>
            /\ HasActiveContract(pid)
            /\ submit_work_checks(store, store.projects[pid].freelancer_user_id, pid) = 0

\* C35: no project has more than one completed project_payment transaction,
\* also when two checkout requests for the same completed project interleave
\* store operation by store operation (both query the existing transactions
\* before either saves).
C35_OnePaymentUnderInterleaving ==
    \A pid \in 1 .. store.nProjects :
        \A s, t \in ProjectPayments(pid) : s = t

\* C36: no two WorkSubmissions of the same project have the same version,
\* also when two submit_work requests for the project interleave store
\* operation by store operation (both read the existing submissions before
\* either saves).
C36_VersionsDistinct ==
    \A s, t \in 1 .. Len(store.submissions) :
        /\ store.submissions[s].project_id = store.submissions[t].project_id
        /\ store.submissions[s].version = store.submissions[t].version
        => s = t

\* C37: every project_payment transaction is saved with project_id = the
\* project, payer = the project's client_user_id, payee = the project's
\* freelancer_user_id as the project is when checkout reads it, and status
\* completed; it pays no user other than the assigned freelancer, is saved
\* for no project that is not completed, and is not changed afterwards.
C37_PaymentsPayTheAssignedFreelancer ==
    [][/\ \A t \in 1 .. Len(store.transactions) :
              /\ t <= Len(store'.transactions)
              /\ store'.transactions[t] = store.transactions[t]
       /\ \A t \in (Len(store.transactions) + 1) .. Len(store'.transactions) :
              LET tr == store'.transactions[t]
              IN tr.transaction_type = "project_payment" =>
                    /\ tr.project_id \in DOMAIN store.projects
                    /\ tr.payer_user_id = store.projects[tr.project_id].client_user_id
                    /\ tr.payee_user_id = store.projects[tr.project_id].freelancer_user_id
                    /\ tr.payee_user_id \in Freelancers
                    /\ tr.status = "completed"
                    /\ store.projects[tr.project_id].status = "completed"]_vars

\* A payment was made to a freelancer the project was reassigned to: the
\* payee is not the freelancer of the project's accepted bid.
C37_PaidReassignedFreelancer ==
    \E t \in 1 .. Len(store.transactions), b \in 1 .. Len(store.bids) :
        /\ store.transactions[t].transaction_type = "project_payment"
        /\ store.bids[b].project_id = store.transactions[t].project_id
        /\ store.bids[b].status = "accepted"
        /\ store.bids[b].freelancer_user_id # store.transactions[t].payee_user_id

\* Project pid is open and has a pending bid.
OpenWithPendingBid(pid) ==
    /\ pid \in DOMAIN store.projects
    /\ store.projects[pid].status = "open"
    /\ \E b \in 1 .. Len(store.bids) :
           store.bids[b].project_id = pid /\ store.bids[b].status = "pending"

\* Project pid has a completed project_payment transaction.
Paid(pid) == ProjectPayments(pid) # {}

\* Project pid is completed and checkout finds no amount to pay: neither its
\* budget nor the amount of its freelancer's accepted bid is positive.
Unpayable(pid) ==
    /\ pid \in DOMAIN store.projects
    /\ store.projects[pid].status = "completed"
    /\ \A first \in {0} \cup BidIds :
           FirstAccepted(store, pid, first) => amount(store, pid, first) = {}

\* The request of the lifecycle that is due for each project is accepted.
LifecycleStepsEnabled ==
    \A pid \in DOMAIN store.projects :
        LET pr == store.projects[pid]
        IN /\ pr.status = "open" =>
                 \A b \in 1 .. Len(store.bids) :
                     store.bids[b].project_id = pid /\ store.bids[b].status = "pending"
                     => accept_bid(store, pr.client_user_id, pid, b, AllWritesOk,
                                   BidIds).code = 200
           /\ pr.status = "in_progress" =>
                 submit_work_for_project(store, pr.freelancer_user_id, pid,
                                         [sub |-> TRUE, proj |-> TRUE]).code = 201
           /\ pr.status = "awaiting_review" =>
                 \E sid \in 1 .. Len(store.submissions),
                    first \in {0} \cup ContractIds :
                     /\ FirstActive(store, pid, first)
                     /\ approve_submission(store, pr.client_user_id, pid, sid,
                                           [proj |-> TRUE, contract |-> TRUE],
                                           first).code = 200
           /\ pr.status = "completed" /\ ~Paid(pid) /\ ~Unpayable(pid) =>
                 \A first \in {0} \cup BidIds :
                     FirstAccepted(store, pid, first) =>
                         checkout_project_payment(store, pr.client_user_id, pid,
                                                  first, TRUE).code = 201

\* C38 as stated: with no store failure, no update_project, delete_project,
\* update_bid or update_contract_status request, and weak fairness of the
\* lifecycle steps, every open project with a pending bid is eventually paid.
C38_EveryOpenProjectIsPaid ==
    \A pid \in 1 .. MaxProjects : OpenWithPendingBid(pid) ~> Paid(pid)

\* C38: under the same assumptions accept_bid by the client, submit_work by
\* the assigned freelancer, approve_submission by the client and checkout by
\* the client are each accepted in turn, and every open project with a
\* pending bid is eventually completed and then paid, unless neither its
\* budget nor its accepted bid's amount is positive: then it stays completed
\* and unpaid, checkout answering 400.
C38_EveryOpenProjectIsPaidOrUnpayable ==
    /\ []LifecycleStepsEnabled
    /\ \A pid \in 1 .. MaxProjects :
           OpenWithPendingBid(pid) ~> (Paid(pid) \/ Unpayable(pid))
    /\ \A pid \in 1 .. MaxProjects : [](Paid(pid) => ~Unpayable(pid))

\* The lifecycle has run to its end: a completed project with an accepted
\* bid, a completed contract and a submission has been paid.
C38_PaidAfterLifecycle ==
    \E pid \in DOMAIN store.projects :
        /\ Paid(pid)
        /\ store.projects[pid].status = "completed"
        /\ AcceptedBidsOf(pid) # {}
        /\ \E c \in 1 .. Len(store.contracts) :
               store.contracts[c].project_id = pid /\ store.contracts[c].status = "completed"
        /\ \E s \in 1 .. Len(store.submissions) : store.submissions[s].project_id = pid

\* C39: start_new_chat returns, or creates, a chat whose project_context_id
\* equals the project_context_id of the request; in particular a request
\* without a project context never returns an existing chat that has one.
C39_ChatHasTheRequestedContext ==
    \A u \in Users, participant2_id \in Users, project_context_id \in Contexts,
       first \in {0} \cup ChatIds, ok \in BOOLEAN :
        FirstChat(store, u, participant2_id, project_context_id, first) =>
            LET r == start_new_chat(store, u, participant2_id, project_context_id,
                                    first, ok)
            IN r.chat # 0 =>
                   r.store.chats[r.chat].project_context_id = project_context_id
====
